---- MODULE Spec2Model ----
(***************************************************************************)
(* Model of the vouch index: the peer tree store, the review, comment,     *)
(* package and registry stores, and the merge engine that imports a        *)
(* followed peer's index into the local index.                             *)
(*                                                                         *)
(* Two indexes are modelled: "local" (the root index of the user) and      *)
(* "remote" (the index found in a followed peer's repository).  Both are   *)
(* built by the same operations; merge reads "remote" and writes "local".  *)
(***************************************************************************)
EXTENDS Integers, Sequences, FiniteSets, TLC

VARIABLES peer, registry, package, comment, review, foreign_keys, last

vars == <<peer, registry, package, comment, review, foreign_keys, last>>

---------------------------------------------------------------------------
(* Bounds of the model.                                                    *)

\* Largest row id a table of the local index may hand out.
MaxId == 4

\* Largest row id the peer table of the remote index may hand out.
MaxRemoteId == 3

\* Number of comments of a review made by the review command.
MaxComments == 1

\* Largest row id a table of the local index may hand out when reviews are
\* stored as well.
MaxStoreId == 3

\* Largest row id a table of the remote index may hand out when reviews are
\* stored as well.
MaxStoreRemoteId == 2

\* Largest row id of the peer table when reviews are inserted, updated and
\* removed one by one.
MaxReviewPeerId == 2

\* Largest row id of the other tables when reviews are inserted, updated and
\* removed one by one.
MaxReviewId == 3

\* Largest number of comments of a review that is inserted or updated.
MaxReviewComments == 2

\* Largest id of an element of the sets handed to get_difference_sans_id.
MaxDifferenceId == 3

\* Largest number of elements of a set handed to get_difference_sans_id.
MaxDifferenceSize == 2

---------------------------------------------------------------------------
(* Program constants and input domains.                                    *)

Stores == {"local", "remote"}

ROOT_ALIAS == "root"

ROOT_DEFAULT_GIT_URL == "https://localhost"

\* Git urls a peer can be followed under.  The first two differ in the case
\* of a path letter only and derive aliases that differ in case only; the
\* third has no well known host and keeps its url as alias.
PeerUrls == {"https://github.com/alice/r", "https://github.com/Alice/r",
             "https://localhost/peer_3"}

\* Git urls get_new_alias is asked about: those of PeerUrls, one whose first
\* path segment is the root alias and one at another host with the first
\* path segment of a url of PeerUrls.
AliasUrls == PeerUrls \cup {"https://github.com/root/r", "https://gitlab.com/alice/r"}

\* GitUrl::host_str
host_str(git_url) ==
    CASE git_url = "https://github.com/alice/r" -> "github.com"
      [] git_url = "https://github.com/Alice/r" -> "github.com"
      [] git_url = "https://github.com/root/r" -> "github.com"
      [] git_url = "https://gitlab.com/alice/r" -> "gitlab.com"
      [] OTHER -> "localhost"

\* The first path segment of a git url.
first_segment(git_url) ==
    CASE git_url = "https://github.com/alice/r" -> "alice"
      [] git_url = "https://github.com/Alice/r" -> "Alice"
      [] git_url = "https://github.com/root/r" -> "root"
      [] git_url = "https://gitlab.com/alice/r" -> "alice"
      [] git_url = "https://localhost/peer_3" -> "peer_3"
      [] OTHER -> ""

\* url().path() without its leading "/", as the components of a PathBuf.
path_components(git_url) ==
    CASE git_url = "https://github.com/alice/r" -> <<"alice", "r">>
      [] git_url = "https://github.com/Alice/r" -> <<"Alice", "r">>
      [] git_url = "https://github.com/root/r" -> <<"root", "r">>
      [] git_url = "https://gitlab.com/alice/r" -> <<"alice", "r">>
      [] git_url = "https://localhost/peer_3" -> <<"peer_3">>
      [] OTHER -> <<>>

\* ASCII case folding as done by SQLite's LIKE.
Fold(s) ==
    CASE s = "https://github.com/Alice/r" -> "https://github.com/alice/r"
      [] s = "Alice" -> "alice"
      [] OTHER -> s

\* `column LIKE :param ESCAPE '\'` for a parameter made by like_escape: the
\* wildcards are escaped, so the match is equality up to ASCII case.
Like(value, param) == Fold(value) = Fold(param)

---------------------------------------------------------------------------
(* Option<SubPeerIds> and the peer record.                                 *)

NoId == 0

None == [some |-> FALSE, ids |-> {}]

Some(ids) == [some |-> TRUE, ids |-> ids]

Peer(id, alias, git_url, parent_id, child_peer_ids) ==
    [id |-> id, alias |-> alias, git_url |-> git_url,
     parent_id |-> parent_id, child_peer_ids |-> child_peer_ids]

is_root(p) == p.alias = ROOT_ALIAS /\ p.parent_id = NoId

Ids(rows) == {r.id : r \in rows}

\* The element of a singleton.  In Value({f(t) : t \in {e}}) the result e of
\* one statement is computed once and handed as t to the statements after it.
Value(S) == CHOOSE x \in S : TRUE

MaxOf(S) == CHOOSE x \in S : \A y \in S : y <= x

\* INTEGER PRIMARY KEY without AUTOINCREMENT: the next rowid is one more
\* than the largest rowid currently in the table.
last_insert_rowid(rows) == IF rows = {} THEN 1 ELSE MaxOf(Ids(rows)) + 1

---------------------------------------------------------------------------
(* peer::index                                                             *)

peer_get_by_id(rows, id) == {p \in rows : p.id = id}

peer_get_by_alias(rows, alias) == {p \in rows : Like(p.alias, alias)}

peer_get_by_git_url(rows, git_url) == {p \in rows : Like(p.git_url, git_url)}

peer_get_by_parent_id(rows, parent_id) == {p \in rows : p.parent_id = parent_id}

get_root(rows) == peer_get_by_alias(rows, ROOT_ALIAS)

\* UPDATE peer SET child_peer_ids = value WHERE id = id
update_child_peer_ids(rows, id, value) ==
    {IF p.id = id THEN [p EXCEPT !.child_peer_ids = value] ELSE p : p \in rows}

\* A variant of add_child_peer_id that extends the caller's copy of the
\* parent and does not write the child set to the table.
add_child_peer_id_unsaved(rows, parent, child) ==
    [parent |-> [parent EXCEPT !.child_peer_ids =
                     Some(parent.child_peer_ids.ids \cup {child.id})],
     rows   |-> rows]

\* Returns the parent copy and the table after the update.
add_child_peer_id(rows, parent, child) ==
    LET ids == parent.child_peer_ids.ids \cup {child.id}
    IN  [parent |-> [parent EXCEPT !.child_peer_ids = Some(ids)],
         rows   |-> update_child_peer_ids(rows, parent.id, Some(ids))]

\* A variant of remove_child_peer_id that leaves the parent's child set as
\* it is.
remove_child_peer_id_kept(rows, parent, child) == rows

\* A variant of remove_child_peer_id that stores the empty set of a parent
\* that has lost its last child.
remove_child_peer_id_storing_empty(rows, parent, child) ==
    IF ~parent.child_peer_ids.some THEN rows
    ELSE IF child.id \notin parent.child_peer_ids.ids THEN rows
    ELSE update_child_peer_ids(rows, parent.id,
                               Some(parent.child_peer_ids.ids \ {child.id}))

\* A variant of remove_child_peer_id that drops every child id of the
\* parent.
remove_child_peer_id_dropping_all(rows, parent, child) ==
    IF ~parent.child_peer_ids.some THEN rows
    ELSE IF child.id \notin parent.child_peer_ids.ids THEN rows
    ELSE update_child_peer_ids(rows, parent.id, None)

remove_child_peer_id(rows, parent, child) ==
    IF ~parent.child_peer_ids.some THEN rows
    ELSE IF child.id \notin parent.child_peer_ids.ids THEN rows
    ELSE LET ids == parent.child_peer_ids.ids \ {child.id}
         IN  update_child_peer_ids(rows, parent.id,
                                   IF ids = {} THEN None ELSE Some(ids))

\* The constraints of the peer table on INSERT: the error SQLite reports, or
\* "" when the row is accepted.
peer_insert_error(rows, alias, git_url, parent_id, fk) ==
    IF \E p \in rows : p.git_url = git_url
    THEN "UNIQUE constraint failed: peer.git_url"
    ELSE IF \E p \in rows : p.alias = alias
    THEN "UNIQUE constraint failed: peer.alias"
    ELSE IF fk /\ parent_id # NoId /\ ~\E p \in rows : p.id = parent_id
    THEN "FOREIGN KEY constraint failed"
    ELSE ""

\* insert(alias, git_url, parent_peer, tx).  parents is the empty set for
\* None and a singleton holding the caller's copy of the parent otherwise.
peer_insert(rows, alias, git_url, parents, fk) ==
    LET parent_id == IF parents = {} THEN NoId ELSE (CHOOSE p \in parents : TRUE).id
        new_peer  == Peer(last_insert_rowid(rows), alias, git_url, parent_id, None)
        inserted  == rows \cup {new_peer}
        error     == peer_insert_error(rows, alias, git_url, parent_id, fk)
    IN  IF error # ""
        THEN [ok |-> FALSE, error |-> error, rows |-> rows, peers |-> {},
              parents |-> parents]
        ELSE IF parents = {}
        THEN [ok |-> TRUE, error |-> "", rows |-> inserted, peers |-> {new_peer},
              parents |-> {}]
        ELSE LET r == add_child_peer_id(inserted, CHOOSE p \in parents : TRUE, new_peer)
             IN  [ok |-> TRUE, error |-> "", rows |-> r.rows, peers |-> {new_peer},
                  parents |-> {r.parent}]

\* A variant of get_new_alias without the test for an alias in use.
get_new_alias_unchecked(rows, git_url) ==
    LET alias == IF host_str(git_url) \in {"github.com", "gitlab.com"}
                    /\ first_segment(git_url) # ""
                 THEN first_segment(git_url) ELSE git_url
    IN  IF alias = ROOT_ALIAS THEN git_url ELSE alias

get_new_alias(rows, git_url) ==
    LET alias == IF host_str(git_url) \in {"github.com", "gitlab.com"}
                    /\ first_segment(git_url) # ""
                 THEN first_segment(git_url) ELSE git_url
    IN  IF alias = ROOT_ALIAS THEN git_url
        ELSE IF peer_get_by_alias(rows, alias) # {} THEN git_url
        ELSE alias

\* setup: the root peer is inserted if no peer has the root alias.
peer_setup(rows, fk) ==
    IF get_root(rows) # {} THEN rows
    ELSE peer_insert(rows, ROOT_ALIAS, ROOT_DEFAULT_GIT_URL, {}, fk).rows

\* A variant of remove without the test for a missing parent: the row of a
\* childless peer is deleted whether or not it has a parent.
peer_remove_unguarded(rows, id, reviews, fk) ==
    LET found == peer_get_by_id(rows, id)
        p == CHOOSE q \in found : TRUE
        parents == peer_get_by_id(rows, p.parent_id)
        unlinked == IF parents = {} THEN rows
                    ELSE remove_child_peer_id(rows, CHOOSE q \in parents : TRUE, p)
    IN  IF found = {} THEN [result |-> "ok", error |-> "", rows |-> rows, removed |-> {}]
        ELSE IF p.child_peer_ids.some /\ p.child_peer_ids.ids # {}
        THEN [result |-> "panic", error |-> "", rows |-> rows, removed |-> {}]
        ELSE [result |-> "ok", error |-> "", removed |-> {p},
              rows |-> {q \in unlinked : q.id # p.id}]

\* remove(fields, tx) with fields.id given.  reviews is the review table of
\* the same index: with foreign keys enforced the DELETE fails while a peer or
\* a review row still references the peer.
peer_remove(rows, id, reviews, fk) ==
    LET found == peer_get_by_id(rows, id)
        p == CHOOSE q \in found : TRUE
        parents == peer_get_by_id(rows, p.parent_id)
        unlinked == remove_child_peer_id(rows, CHOOSE q \in parents : TRUE, p)
        referenced == \/ \E q \in unlinked : q.parent_id = p.id
                      \/ \E r \in reviews : r.peer_id = p.id
    IN  IF found = {} THEN [result |-> "ok", error |-> "", rows |-> rows, removed |-> {}]
        ELSE IF p.child_peer_ids.some /\ p.child_peer_ids.ids # {}
        THEN [result |-> "panic", rows |-> rows, removed |-> {},
              error |-> "Error removing peer. Peer has associated child peers which need to be removed first."]
        ELSE IF p.parent_id = NoId
        THEN [result |-> "err", rows |-> rows, removed |-> {},
              error |-> "Peer does not have a parent peer. Cannot remove root peer."]
        ELSE IF parents = {}
        THEN [result |-> "err", error |-> "Parent peer not found in index.",
              rows |-> rows, removed |-> {}]
        ELSE IF fk /\ referenced
        THEN [result |-> "err", error |-> "FOREIGN KEY constraint failed",
              rows |-> unlinked, removed |-> {}]
        ELSE [result |-> "ok", error |-> "", removed |-> {p},
              rows |-> {q \in unlinked : q.id # p.id}]

\* The elements of a set of rows as a sequence, in the order rank gives them.
\* A HashSet is iterated in an unspecified order: rank is chosen freely.
RECURSIVE iteration_order(_, _)
iteration_order(S, rank) ==
    IF S = {} THEN <<>>
    ELSE LET x == CHOOSE x \in S : \A y \in S : rank[x.id] <= rank[y.id]
         IN  <<x>> \o iteration_order(S \ {x}, rank)

RECURSIVE extend_subtree(_, _)
extend_subtree(subtree, children) ==
    IF children = <<>> THEN <<>>
    ELSE <<Append(subtree, Head(children))>> \o extend_subtree(subtree, Tail(children))

\* The loop of get_peer_subtrees over the queue of incomplete subtrees.
RECURSIVE subtrees_loop(_, _, _, _)
subtrees_loop(rows, rank, incomplete_subtrees, complete_subtrees) ==
    IF incomplete_subtrees = <<>> THEN complete_subtrees
    ELSE LET subtree == Head(incomplete_subtrees)
             leaf_peer == subtree[Len(subtree)]
             children == peer_get_by_parent_id(rows, leaf_peer.id)
         IN  IF children = {}
             THEN subtrees_loop(rows, rank, Tail(incomplete_subtrees),
                                Append(complete_subtrees, subtree))
             ELSE subtrees_loop(rows, rank,
                                Tail(incomplete_subtrees)
                                  \o extend_subtree(subtree, iteration_order(children, rank)),
                                complete_subtrees)

\* get_peer_subtrees(None, tx): every root to leaf path.  The index holds a
\* root peer when this is called.
get_peer_subtrees(rows, rank) ==
    subtrees_loop(rows, rank, <<<<CHOOSE p \in get_root(rows) : TRUE>>>>, <<>>)

\* subtree.windows(2) of every subtree, in order.
RECURSIVE windows(_)
windows(subtrees) ==
    IF subtrees = <<>> THEN <<>>
    ELSE [i \in 1..(Len(Head(subtrees)) - 1) |->
              [parent |-> Head(subtrees)[i], peer |-> Head(subtrees)[i + 1]]]
         \o windows(Tail(subtrees))

GitUrls(peers) == {p.git_url : p \in peers}

\* A variant of already_known that looks at the peers of the destination
\* index only, not at those inserted earlier in the pass.
already_known_locally(m, git_url) == git_url \in GitUrls(m.existing_peers)

\* A variant of already_known that looks at the peers inserted in this pass
\* only.
already_known_in_pass(m, git_url) == git_url \in GitUrls(m.inserted_peers)

\* The test that opens the insert_peer closure of merge.
already_known(m, git_url) ==
    git_url \in GitUrls(m.existing_peers) \/ git_url \in GitUrls(m.inserted_peers)

\* A variant of destination_parent that attaches every merged peer to the root
\* peer of the destination index.
destination_parent_root(m, parent_peer) ==
    {q \in m.existing_peers \cup m.inserted_peers : is_root(q)}

\* "Get parent peer from destination index": the copies merge holds of the
\* peer with the parent's git url, the inserted ones first.
destination_parent(m, parent_peer) ==
    LET inserted == {q \in m.inserted_peers : q.git_url = parent_peer.git_url}
    IN  IF inserted # {} THEN inserted
        ELSE {q \in m.existing_peers : q.git_url = parent_peer.git_url}

\* A variant of insert_peer in which the incoming position wins: a peer the
\* destination index has is moved under the destination copy of its incoming
\* parent.
insert_peer_moving(m, p, parent_peer, fk) ==
    LET parents == destination_parent(m, parent_peer)
        parent == CHOOSE q \in parents : TRUE
    IN  IF ~m.ok \/ parents = {} THEN m
        ELSE [m EXCEPT !.rows = {IF q.git_url = p.git_url /\ q.parent_id # NoId
                                 THEN [q EXCEPT !.parent_id = parent.id] ELSE q :
                                 q \in m.rows}]

\* The closure insert_peer of merge.  m holds the destination table and the
\* two maps of the merge; ok is false once a `?` has returned an error.
insert_peer(m, p, parent_peer, fk) ==
    IF ~m.ok \/ already_known(m, p.git_url) THEN m
    ELSE LET parents == destination_parent(m, parent_peer)
         IN  Value({
                 LET swap(S) == IF parents \subseteq S /\ parents # {}
                                THEN (S \ parents) \cup r.parents ELSE S
                 IN  IF ~r.ok THEN [m EXCEPT !.ok = FALSE, !.error = r.error]
                     ELSE [ok |-> TRUE, error |-> "", rows |-> r.rows,
                           existing_peers |-> IF parents \subseteq m.inserted_peers
                                              THEN m.existing_peers
                                              ELSE swap(m.existing_peers),
                           inserted_peers |-> (IF parents \subseteq m.inserted_peers
                                               THEN swap(m.inserted_peers)
                                               ELSE m.inserted_peers) \cup r.peers] :
                 r \in {peer_insert(m.rows, get_new_alias(m.rows, p.git_url),
                                    p.git_url, parents, fk)}})

\* The body of the loop of merge over one (parent, peer) pair.
merge_pair(m, pair, incoming_root_git_url, root_peer, fk) ==
    LET parent_peer == IF is_root(pair.parent)
                       THEN [pair.parent EXCEPT !.git_url = incoming_root_git_url]
                       ELSE pair.parent
    IN  Value({insert_peer(m1, pair.peer, parent_peer, fk) :
            m1 \in {IF is_root(parent_peer)
                    THEN insert_peer(m, parent_peer, root_peer, fk) ELSE m}})

RECURSIVE merge_loop(_, _, _, _, _)
merge_loop(m, pairs, incoming_root_git_url, root_peer, fk) ==
    IF pairs = <<>> THEN m
    ELSE Value({merge_loop(m1, Tail(pairs), incoming_root_git_url, root_peer, fk) :
             m1 \in {merge_pair(m, Head(pairs), incoming_root_git_url, root_peer, fk)}})

\* A variant of merge_return that returns each peer as insert returned it,
\* without the children added to it later in the pass.
merge_return_as_inserted(m) ==
    {[p EXCEPT !.child_peer_ids = None] : p \in m.inserted_peers}

\* What merge returns on success: the values of inserted_peers.
merge_return(m) == m.inserted_peers

\* merge(incoming_root_git_url, incoming_tx, tx).
peer_merge(rows, incoming_rows, incoming_root_git_url, rank, fk) ==
    LET m0 == [ok |-> TRUE, error |-> "", rows |-> rows, existing_peers |-> rows,
               inserted_peers |-> {}]
    IN  IF get_root(rows) = {}
        THEN [ok |-> FALSE, error |-> "Root peer must exist before merging in other peers.",
              rows |-> rows, returned |-> {}]
        ELSE IF get_root(incoming_rows) = {}
        THEN [ok |-> FALSE, error |-> "Cannot find root peer.", rows |-> rows,
              returned |-> {}]
        ELSE Value({[ok |-> m.ok, error |-> m.error, rows |-> m.rows,
                     returned |-> IF m.ok THEN merge_return(m) ELSE {}] :
                 m \in {merge_loop(m0, windows(get_peer_subtrees(incoming_rows, rank)),
                                   incoming_root_git_url,
                                   CHOOSE p \in get_root(rows) : TRUE, fk)}})

\* get_breadth_first_child_peers(starting_peer, tx)
RECURSIVE breadth_first_loop(_, _, _)
breadth_first_loop(rows, unprocessed_peers, breadth_layers) ==
    IF unprocessed_peers = {} THEN breadth_layers
    ELSE breadth_first_loop(rows,
             UNION {peer_get_by_parent_id(rows, p.id) : p \in unprocessed_peers},
             Append(breadth_layers, unprocessed_peers))

\* A variant of get_breadth_first_child_peers that stops below the children
\* of the starting peer.
get_direct_child_peers(rows, starting_peer) ==
    <<{starting_peer}, peer_get_by_parent_id(rows, starting_peer.id)>>

get_breadth_first_child_peers(rows, starting_peer) ==
    breadth_first_loop(rows, {starting_peer}, <<>>)

---------------------------------------------------------------------------
(* The registry, package, comment and review tables.  An operation takes   *)
(* the tables of one index as a record tx with the fields peer, registry,  *)
(* package, comment, review, fk (foreign keys enforced), result ("ok",     *)
(* "err" or "panic") and error, and returns the record after it ran; an    *)
(* operation given a tx whose result is not "ok" returns it as it is (the  *)
(* `?` operator has left the calling function).                            *)

\* The package a review is made of, as the extension reports it.
PackageInputs ==
    {[name |-> "numpy", version |-> "1.0", artifact_hash |-> "sha-1",
      host_name |-> "pypi.org",
      registry_human_url |-> "https://pypi.org/pypi/numpy/1.0/",
      archive_url |-> "https://files.pythonhosted.org/numpy-1.0.tar.gz"]}

\* The comment the review tool writes.
CommentInput == [path |-> "setup.py", summary |-> "warn", message |-> "m"]

\* The comments a reviewer can write on a package.
CommentContents == {CommentInput, [path |-> "setup.py", summary |-> "pass", message |-> "m"]}

Registry(id, host_name, registry_human_url, archive_url) ==
    [id |-> id, host_name |-> host_name, registry_human_url |-> registry_human_url,
     archive_url |-> archive_url]

Package(id, name, version, registry_ids, artifact_hash) ==
    [id |-> id, name |-> name, version |-> version, registry_ids |-> registry_ids,
     artifact_hash |-> artifact_hash]

Comment(id, path, summary, message) ==
    [id |-> id, path |-> path, summary |-> summary, message |-> message]

Review(id, peer_id, package_id, comment_ids) ==
    [id |-> id, peer_id |-> peer_id, package_id |-> package_id,
     comment_ids |-> comment_ids]

Fail(tx, error) == [tx EXCEPT !.result = "err", !.error = error]

\* The rows of a query in the order of their row ids.
RECURSIVE by_id(_)
by_id(S) ==
    IF S = {} THEN <<>>
    ELSE LET x == CHOOSE x \in S : \A y \in S : x.id <= y.id
         IN  <<x>> \o by_id(S \ {x})

\* registry::index::get with host_name, registry_human_url and archive_url.
registry_get(tx, host_name, registry_human_url, archive_url) ==
    {r \in tx.registry : /\ Like(r.host_name, host_name)
                         /\ Like(r.registry_human_url, registry_human_url)
                         /\ Like(r.archive_url, archive_url)}

registry_insert(tx, host_name, registry_human_url, archive_url) ==
    IF tx.result # "ok" THEN tx
    ELSE IF \E r \in tx.registry : r.archive_url = archive_url
    THEN Fail(tx, "UNIQUE constraint failed: registry.archive_url")
    ELSE [tx EXCEPT !.registry = @ \cup {Registry(last_insert_rowid(@), host_name,
                                                  registry_human_url, archive_url)}]

registry_ensure(tx, host_name, registry_human_url, archive_url) ==
    IF tx.result # "ok" THEN tx
    ELSE IF registry_get(tx, host_name, registry_human_url, archive_url) # {} THEN tx
    ELSE registry_insert(tx, host_name, registry_human_url, archive_url)

\* The fields hash_sans_id of Registry hashes.
registry_sans_id(r) ==
    [host_name |-> r.host_name, registry_human_url |-> r.registry_human_url,
     archive_url |-> r.archive_url]

\* The elements of a HashSet in an iteration order (a sequence of rows), each
\* with the value hash_sans_id feeds to the hasher.
hash_entries(rows, sans_id) ==
    [i \in DOMAIN rows |-> [row |-> rows[i], sans_id |-> sans_id[rows[i]]]]

\* .map(|x| (hash, x)).collect::<HashMap<_, _>>(): an entry met later in the
\* iteration replaces an earlier one with the same key.
hash_map_collect(entries) ==
    [k \in {entries[i].sans_id : i \in DOMAIN entries} |->
        entries[MaxOf({i \in DOMAIN entries : entries[i].sans_id = k})].row]

\* get_difference_sans_id(primary, secondary): both sets are given as the
\* entries of their iteration.  The keys of primary that are no keys of
\* secondary are looked up in the map collected from primary.
get_difference_sans_id(primary, secondary) ==
    LET primary_map    == hash_map_collect(primary)
        secondary_keys == DOMAIN hash_map_collect(secondary)
    IN  {primary_map[k] : k \in (DOMAIN primary_map) \ secondary_keys}

RECURSIVE registry_merge_loop(_, _)
registry_merge_loop(tx, registries) ==
    IF registries = <<>> THEN tx
    ELSE LET r == Head(registries)
         IN  Value({registry_merge_loop(t, Tail(registries)) :
                 t \in {registry_insert(tx, r.host_name, r.registry_human_url,
                                        r.archive_url)}})

\* registry::index::merge.  archive_url is UNIQUE, so no two registries of a
\* table have the same fields without the id and the order in which the
\* tables are iterated does not change the difference.
registry_merge(incoming_tx, tx) ==
    IF tx.result # "ok" THEN tx
    ELSE registry_merge_loop(tx, by_id(get_difference_sans_id(
             hash_entries(by_id(incoming_tx.registry),
                          [r \in incoming_tx.registry |-> registry_sans_id(r)]),
             hash_entries(by_id(tx.registry),
                          [r \in tx.registry |-> registry_sans_id(r)]))))

\* The registries package::index::get attaches to a package row.
package_registries(tx, package_row) ==
    {r \in tx.registry : r.id \in package_row.registry_ids}

\* A variant of package::index::get that does not look at the registries.
package_get_any_registry(tx, package_name, package_version, registry_host_names) ==
    {k \in tx.package :
        /\ package_name = "" \/ Like(k.name, package_name)
        /\ package_version = "" \/ Like(k.version, package_version)}

\* package::index::get with name, version and registry host names; "" stands
\* for a name or a version that is not given.
package_get(tx, package_name, package_version, registry_host_names) ==
    {k \in tx.package :
        /\ package_name = "" \/ Like(k.name, package_name)
        /\ package_version = "" \/ Like(k.version, package_version)
        /\ \E r \in package_registries(tx, k) : r.host_name \in registry_host_names}

package_insert(tx, package_name, package_version, registries, artifact_hash) ==
    IF tx.result # "ok" THEN tx
    ELSE IF registries = {}
    THEN [tx EXCEPT !.result = "panic",
                    !.error = "At least one registry must be assigned to a package before index insert."]
    ELSE IF \E k \in tx.package : /\ k.name = package_name
                                  /\ k.version = package_version
                                  /\ k.artifact_hash = artifact_hash
    THEN Fail(tx, "UNIQUE constraint failed: package.name, package.version, package.artifact_hash")
    ELSE [tx EXCEPT !.package = @ \cup {Package(last_insert_rowid(@), package_name,
                                                package_version, Ids(registries),
                                                artifact_hash)}]

\* The fields hash_sans_id of Package hashes.
package_sans_id(tx, k) ==
    [name |-> k.name, version |-> k.version, artifact_hash |-> k.artifact_hash,
     registries |-> {registry_sans_id(r) : r \in package_registries(tx, k)}]

RECURSIVE ensure_registries(_, _)
ensure_registries(tx, registries) ==
    IF registries = <<>> THEN tx
    ELSE LET r == Head(registries)
         IN  Value({ensure_registries(t, Tail(registries)) :
                 t \in {registry_ensure(tx, r.host_name, r.registry_human_url,
                                        r.archive_url)}})

\* The local registries that ensure returned for the registries of an
\* incoming package.
ensured_registries(tx, registries) ==
    {CHOOSE n \in registry_get(tx, r.host_name, r.registry_human_url, r.archive_url) : TRUE :
        r \in {r \in registries :
                  registry_get(tx, r.host_name, r.registry_human_url, r.archive_url) # {}}}

RECURSIVE package_merge_loop(_, _, _)
package_merge_loop(incoming_tx, tx, packages) ==
    IF packages = <<>> THEN tx
    ELSE LET k  == Head(packages)
             rs == package_registries(incoming_tx, k)
         IN  Value({package_merge_loop(incoming_tx, t2, Tail(packages)) :
                 t2 \in {package_insert(t1, k.name, k.version,
                                        ensured_registries(t1, rs), k.artifact_hash) :
                         t1 \in {ensure_registries(tx, by_id(rs))}}})

\* package::index::merge.  (name, version, artifact_hash) is UNIQUE, so the
\* order in which the tables are iterated does not change the difference.
package_merge(incoming_tx, tx) ==
    IF tx.result # "ok" THEN tx
    ELSE package_merge_loop(incoming_tx, tx, by_id(get_difference_sans_id(
             hash_entries(by_id(incoming_tx.package),
                          [k \in incoming_tx.package |-> package_sans_id(incoming_tx, k)]),
             hash_entries(by_id(tx.package),
                          [k \in tx.package |-> package_sans_id(tx, k)]))))

\* package::index::remove by id.  The review table references package(id)
\* ON DELETE CASCADE: with foreign keys enforced the reviews of the package
\* are deleted with it.
package_remove(tx, id) ==
    IF tx.result # "ok" THEN tx
    ELSE [tx EXCEPT !.package = {k \in @ : k.id # id},
                    !.review = IF tx.fk THEN {r \in @ : r.package_id # id} ELSE @]

\* The fields hash_sans_id of Comment hashes (the model has no selection).
comment_sans_id(c) == [path |-> c.path, summary |-> c.summary, message |-> c.message]

comment_insert(tx, path, summary, message) ==
    IF tx.result # "ok" THEN tx
    ELSE [tx EXCEPT !.comment = @ \cup {Comment(last_insert_rowid(@), path, summary,
                                                message)}]

comment_remove(tx, id) ==
    IF tx.result # "ok" THEN tx
    ELSE [tx EXCEPT !.comment = {c \in @ : c.id # id}]

\* The derived order of Summary: Fail, Warn, Pass.
summary_rank(summary) ==
    CASE summary = "fail" -> 0 [] summary = "warn" -> 1 [] OTHER -> 2

\* The order in which a BTreeSet<Comment> is iterated: by summary, path,
\* message, selection and id.  The comments of the model have one path and
\* one message.
RECURSIVE btree_order(_)
btree_order(comments) ==
    IF comments = {} THEN <<>>
    ELSE LET x == CHOOSE x \in comments : \A y \in comments :
                      \/ summary_rank(x.summary) < summary_rank(y.summary)
                      \/ summary_rank(x.summary) = summary_rank(y.summary) /\ x.id <= y.id
         IN  <<x>> \o btree_order(comments \ {x})

\* Inserts a row for each comment of a sequence and returns the tx with the
\* ids of the rows.
RECURSIVE insert_comments(_, _, _)
insert_comments(tx, comments, ids) ==
    IF comments = <<>> \/ tx.result # "ok" THEN [tx |-> tx, ids |-> ids]
    ELSE Value({insert_comments(t, Tail(comments),
                                ids \cup {last_insert_rowid(tx.comment)}) :
             t \in {comment_insert(tx, Head(comments).path, Head(comments).summary,
                                   Head(comments).message)}})

\* A variant of insert on a review table without the UNIQUE(peer_id,
\* package_id) constraint.
review_insert_unchecked(tx, comment_ids, peer_id, package_id) ==
    IF tx.result # "ok" THEN tx
    ELSE [tx EXCEPT !.review = @ \cup {Review(last_insert_rowid(@), peer_id, package_id,
                                              comment_ids)}]

\* review::index::insert
review_insert(tx, comment_ids, peer_id, package_id) ==
    IF tx.result # "ok" THEN tx
    ELSE IF \E r \in tx.review : r.peer_id = peer_id /\ r.package_id = package_id
    THEN Fail(tx, "UNIQUE constraint failed: review.peer_id, review.package_id")
    ELSE IF tx.fk /\ (peer_id \notin Ids(tx.peer) \/ package_id \notin Ids(tx.package))
    THEN Fail(tx, "FOREIGN KEY constraint failed")
    ELSE [tx EXCEPT !.review = @ \cup {Review(last_insert_rowid(@), peer_id, package_id,
                                              comment_ids)}]

\* review::index::Fields with id, peer, package_name and package_version;
\* NoId and "" stand for None.
ReviewFields(id, peer_id, package_name, package_version) ==
    [id |-> id, peer_id |-> peer_id, package_name |-> package_name,
     package_version |-> package_version]

\* Fields::default()
AnyReview == ReviewFields(NoId, NoId, "", "")

\* Fields with the peer only.
ReviewsOfPeer(peer_id) == ReviewFields(NoId, peer_id, "", "")

\* The rows the SELECT of review::index::get and of the DELETE of remove
\* finds: review joined with peer and package, each field that is given
\* matched with LIKE (a decimal id matches itself only).
review_select(tx, fields) ==
    {r \in tx.review :
        /\ fields.id = NoId \/ r.id = fields.id
        /\ fields.peer_id = NoId \/ r.peer_id = fields.peer_id
        /\ r.peer_id \in Ids(tx.peer)
        /\ \E k \in tx.package :
               /\ k.id = r.package_id
               /\ fields.package_name = "" \/ Like(k.name, fields.package_name)
               /\ fields.package_version = "" \/ Like(k.version, fields.package_version)}

\* review::index::get with registry_host_names: the rows of the SELECT whose
\* package has a registry with one of the host names.
review_get(tx, fields, registry_host_names) ==
    {r \in review_select(tx, fields) :
        \E k \in package_get(tx, "", "", registry_host_names) : k.id = r.package_id}

\* The comments review::index::get loads for a review.
review_comments(tx, r) == {c \in tx.comment : c.id \in r.comment_ids}

RECURSIVE remove_comments(_, _)
remove_comments(tx, comments) ==
    IF comments = <<>> THEN tx
    ELSE Value({remove_comments(t, Tail(comments)) :
             t \in {comment_remove(tx, Head(comments).id)}})

\* The loop of review::index::remove over the reviews get returned: each
\* is a record [review, comments] read before the loop.
RECURSIVE review_remove_loop(_, _)
review_remove_loop(tx, reviews) ==
    IF reviews = <<>> THEN tx
    ELSE Value({review_remove_loop(t2, Tail(reviews)) :
             t2 \in {remove_comments(t1, by_id(Head(reviews).comments)) :
                     t1 \in {package_remove(tx, Head(reviews).review.package_id)}}})

RECURSIVE with_comments(_, _)
with_comments(tx, reviews) ==
    IF reviews = <<>> THEN <<>>
    ELSE <<[review |-> Head(reviews), comments |-> review_comments(tx, Head(reviews))]>>
         \o with_comments(tx, Tail(reviews))

\* review::index::remove
review_remove(tx, fields) ==
    IF tx.result # "ok" THEN tx
    ELSE Value({[t1 EXCEPT !.review = @ \ review_select(t1, fields)] :
             t1 \in {review_remove_loop(
                         tx, with_comments(tx, by_id(review_select(tx, fields))))}})

\* remove_stale_comments(review, tx).  review is the updated review
\* [id, peer_id, package_id, comments]; rank gives the order in which the
\* HashSet of the current comments is iterated (of the new comments only
\* the keys are used).
remove_stale_comments(tx, updated, rank) ==
    LET current_reviews == review_select(tx, ReviewFields(updated.id, NoId, "", ""))
        current_comments == review_comments(tx, Value(current_reviews))
        stale_comments ==
            get_difference_sans_id(
                hash_entries(iteration_order(current_comments, rank),
                             [c \in current_comments |-> comment_sans_id(c)]),
                hash_entries(by_id(updated.comments),
                             [c \in updated.comments |-> comment_sans_id(c)]))
    IN  IF tx.result # "ok" \/ current_reviews = {} THEN tx
        ELSE remove_comments(tx, by_id(stale_comments))

\* The constraints of the review table on the UPDATE of update.
review_update_error(tx, updated) ==
    IF \E r \in tx.review : /\ r.id # updated.id
                             /\ r.peer_id = updated.peer_id
                             /\ r.package_id = updated.package_id
    THEN "UNIQUE constraint failed: review.peer_id, review.package_id"
    ELSE IF tx.fk /\ (updated.peer_id \notin Ids(tx.peer)
                      \/ updated.package_id \notin Ids(tx.package))
    THEN "FOREIGN KEY constraint failed"
    ELSE ""

\* review::index::update
review_update(tx, updated, rank) ==
    IF tx.result # "ok" THEN tx
    ELSE Value({
             IF t1.result # "ok" \/ ~\E r \in t1.review : r.id = updated.id THEN t1
             ELSE IF review_update_error(t1, updated) # ""
             THEN Fail(t1, review_update_error(t1, updated))
             ELSE [t1 EXCEPT !.review =
                      {IF r.id = updated.id
                       THEN Review(r.id, updated.peer_id, updated.package_id,
                                   Ids(updated.comments))
                       ELSE r : r \in @}] :
             t1 \in {remove_stale_comments(tx, updated, rank)}})

\* A variant of review_merge_one that skips an incoming review whose peer or
\* package is not found.
review_merge_one_skipping(incoming_root_git_url, incoming_tx, tx, r) ==
    LET review_peer  == CHOOSE q \in incoming_tx.peer : q.id = r.peer_id
        review_package == CHOOSE k \in incoming_tx.package : k.id = r.package_id
        peer_git_url == IF is_root(review_peer) THEN incoming_root_git_url
                        ELSE review_peer.git_url
        peers    == peer_get_by_git_url(tx.peer, peer_git_url)
        packages == package_get(tx, review_package.name, review_package.version,
                        {g.host_name : g \in package_registries(incoming_tx, review_package)})
    IN  IF tx.result # "ok" \/ peers = {} \/ packages = {} THEN tx
        ELSE Value({review_insert(c.tx, c.ids, (CHOOSE q \in peers : TRUE).id,
                                  (CHOOSE k \in packages : TRUE).id) :
                 c \in {insert_comments(
                            tx, btree_order(review_comments(incoming_tx, r)), {})}})

\* The body of the loop of review::index::merge for one incoming review.
review_merge_one(incoming_root_git_url, incoming_tx, tx, r) ==
    LET review_peer  == CHOOSE q \in incoming_tx.peer : q.id = r.peer_id
        review_package == CHOOSE k \in incoming_tx.package : k.id = r.package_id
        peer_git_url == IF is_root(review_peer) THEN incoming_root_git_url
                        ELSE review_peer.git_url
        peers    == peer_get_by_git_url(tx.peer, peer_git_url)
        packages == package_get(tx, review_package.name, review_package.version,
                        {g.host_name : g \in package_registries(incoming_tx, review_package)})
    IN  IF tx.result # "ok" THEN tx
        ELSE IF peers = {} THEN Fail(tx, "Failed to find matching peer for review")
        ELSE IF packages = {} THEN Fail(tx, "Failed to find matching package for review")
        ELSE Value({review_insert(c.tx, c.ids, (CHOOSE q \in peers : TRUE).id,
                                  (CHOOSE k \in packages : TRUE).id) :
                 c \in {insert_comments(
                            tx, btree_order(review_comments(incoming_tx, r)), {})}})

RECURSIVE review_merge_loop(_, _, _, _)
review_merge_loop(incoming_root_git_url, incoming_tx, tx, reviews) ==
    IF reviews = <<>> THEN tx
    ELSE Value({review_merge_loop(incoming_root_git_url, incoming_tx, t, Tail(reviews)) :
             t \in {review_merge_one(incoming_root_git_url, incoming_tx, tx,
                                     Head(reviews))}})

\* review::index::merge
review_merge(incoming_root_git_url, incoming_tx, tx) ==
    IF tx.result # "ok" THEN tx
    ELSE review_merge_loop(incoming_root_git_url, incoming_tx, tx,
                           by_id(review_select(incoming_tx, AnyReview)))

\* peer::index::merge on a tx.
peer_merge_tx(incoming_root_git_url, incoming_tx, tx, rank) ==
    IF tx.result # "ok" THEN tx
    ELSE Value({IF r.ok THEN [tx EXCEPT !.peer = r.rows]
                ELSE [tx EXCEPT !.peer = r.rows, !.result = "err", !.error = r.error] :
             r \in {peer_merge(tx.peer, incoming_tx.peer, incoming_root_git_url, rank,
                               tx.fk)}})

\* A store merge that merges the reviews before the peers and the packages.
store_merge_reviews_first(incoming_root_git_url, incoming_tx, tx, rank) ==
    Value({package_merge(incoming_tx, t3) :
        t3 \in {peer_merge_tx(incoming_root_git_url, incoming_tx, t2, rank) :
            t2 \in {registry_merge(incoming_tx, t1) :
                t1 \in {review_merge(incoming_root_git_url, incoming_tx, tx)}}}})

\* store::index::merge: registries, peers, packages, reviews.
store_merge(incoming_root_git_url, incoming_tx, tx, rank) ==
    Value({review_merge(incoming_root_git_url, incoming_tx, t3) :
        t3 \in {package_merge(incoming_tx, t2) :
            t2 \in {peer_merge_tx(incoming_root_git_url, incoming_tx, t1, rank) :
                t1 \in {registry_merge(incoming_tx, tx)}}}})

\* peer::index::remove on a tx.
peer_remove_tx(tx, id) ==
    IF tx.result # "ok" THEN tx
    ELSE Value({[tx EXCEPT !.peer = r.rows, !.result = r.result, !.error = r.error] :
             r \in {peer_remove(tx.peer, id, tx.review, tx.fk)}})

\* The loops of remove_peer_subtree: peers is the sequence of the peers of
\* the layers in the order they are processed.
RECURSIVE remove_peers(_, _)
remove_peers(tx, peers) ==
    IF peers = <<>> THEN tx
    ELSE Value({remove_peers(t2, Tail(peers)) :
             t2 \in {peer_remove_tx(t1, Head(peers).id) :
                     t1 \in {review_remove(tx, ReviewsOfPeer(Head(peers).id))}}})

\* The layers of a sequence last to first, each in its iteration order.
RECURSIVE reversed_layers(_, _)
reversed_layers(layers, rank) ==
    IF layers = <<>> THEN <<>>
    ELSE reversed_layers(Tail(layers), rank) \o iteration_order(Head(layers), rank)

\* remove_peer_subtree(target_peer, tx), the index part.
remove_peer_subtree(tx, target_peer, rank) ==
    remove_peers(tx, reversed_layers(
        get_breadth_first_child_peers(tx.peer, target_peer), rank))

\* peer::index::insert on a tx.
peer_insert_tx(tx, alias, git_url, parents) ==
    IF tx.result # "ok" THEN tx
    ELSE Value({IF r.ok THEN [tx EXCEPT !.peer = r.rows]
                ELSE [tx EXCEPT !.result = "err", !.error = r.error] :
             r \in {peer_insert(tx.peer, alias, git_url, parents, tx.fk)}})

\* What can fail outside the index while a command runs: nothing, a step on
\* the files of the repositories, the commit of the index transaction, the
\* commit to the git repository, or the push that ends sync.
Failures == {"none", "fs", "index_commit", "git_commit", "push"}

\* A step on the files: peer::fs::add, remove, fetch_update, merge_update.
fs_step(tx, failure) ==
    IF tx.result = "ok" /\ failure = "fs" THEN Fail(tx, "io error") ELSE tx

\* A variant of StoreTransaction::commit that commits to git first.
store_transaction_commit_git_first(failure) ==
    IF failure = "git_commit"
    THEN [index_committed |-> FALSE, git_committed |-> FALSE, result |-> "err",
          error |-> "git commit failed"]
    ELSE IF failure = "index_commit"
    THEN [index_committed |-> FALSE, git_committed |-> TRUE, result |-> "err",
          error |-> "index commit failed"]
    ELSE [index_committed |-> TRUE, git_committed |-> TRUE, result |-> "ok", error |-> ""]

\* StoreTransaction::commit: index_transaction.commit()? and then
\* git_transaction.commit(message)?.
store_transaction_commit(failure) ==
    IF failure = "index_commit"
    THEN [index_committed |-> FALSE, git_committed |-> FALSE, result |-> "err",
          error |-> "index commit failed"]
    ELSE IF failure = "git_commit"
    THEN [index_committed |-> TRUE, git_committed |-> FALSE, result |-> "err",
          error |-> "git commit failed"]
    ELSE [index_committed |-> TRUE, git_committed |-> TRUE, result |-> "ok", error |-> ""]

\* The end of a command whose steps gave tx: a command that has left with
\* `?` or has returned early drops the tx, the others call tx.commit.
command_commit(tx, returned_early, failure) ==
    IF tx.result # "ok" \/ returned_early
    THEN [index_committed |-> FALSE, git_committed |-> FALSE, result |-> tx.result,
          error |-> tx.error]
    ELSE store_transaction_commit(failure)

\* `.into_iter().next()` on the set get returns: nothing when the set is
\* empty, else any one of its elements (the order of a HashSet is not fixed).
\* The outcomes are sets of at most one peer.
into_iter_next(found) == IF found = {} THEN {{}} ELSE {{p} : p \in found}

\* The add command finds the peer as a child of the root: "Nothing more to
\* do", it returns Ok without a commit.  known is what the lookup of the git
\* url gave.
add_returns_early(tx, known) ==
    \E r \in get_root(tx.peer) : \E p \in known : p.parent_id = r.id

\* The add command (follow) up to its commit: a peer known under another
\* parent than the root is removed with its subtree, the peer is inserted
\* under the root and its index is merged.  remove_rank and rank give the
\* iteration orders of the removal and of the merge; found is what the
\* lookup of the git url gave.
peer_add(tx, incoming_tx, git_url, found, remove_rank, rank, failure) ==
    LET root_peers == get_root(tx.peer)
        known == CHOOSE p \in found : TRUE
    IN  IF root_peers = {} THEN Fail(tx, "Cant find root peer. Index corrupt.")
        ELSE IF found # {} /\ known.parent_id = NoId
        THEN Fail(tx, "The given git URL is already assigned the root peer.")
        ELSE IF found # {} /\ known.parent_id = (CHOOSE r \in root_peers : TRUE).id
        THEN tx
        ELSE Value({store_merge(git_url, incoming_tx, t3, rank) :
                 t3 \in {peer_insert_tx(t2, get_new_alias(t2.peer, git_url), git_url,
                                        root_peers) :
                         t2 \in {fs_step(t1, failure) :
                                 t1 \in {IF found # {}
                                         THEN remove_peer_subtree(fs_step(tx, failure),
                                                                  known, remove_rank)
                                         ELSE tx}}}})

\* The remove command (unfollow) up to its commit; found is what the lookup
\* of the git url gave.
peer_remove_command(tx, found, rank, failure) ==
    IF found = {} THEN Fail(tx, "Failed to find peer for removal")
    ELSE remove_peer_subtree(fs_step(tx, failure), CHOOSE p \in found : TRUE, rank)

\* update_peer of the sync command for a child of the root whose repository
\* has an update: its subtree is removed, the peer is inserted again under
\* the root with its alias and its index is merged.
update_peer(tx, incoming_tx, target_peer, remove_rank, rank, failure) ==
    Value({store_merge(target_peer.git_url, incoming_tx, t2, rank) :
        t2 \in {peer_insert_tx(t1, target_peer.alias, target_peer.git_url,
                               get_root(t1.peer)) :
                t1 \in {remove_peer_subtree(fs_step(tx, failure), target_peer,
                                            remove_rank)}}})

\* The loop of the sync command over the children of the root read at its
\* start; targets are those for which fetch_update finds an update, in the
\* order of the iteration.
RECURSIVE update_peers(_, _, _, _, _, _)
update_peers(tx, incoming_tx, targets, remove_rank, rank, failure) ==
    IF targets = <<>> \/ tx.result # "ok" THEN tx
    ELSE Value({update_peers(t1, incoming_tx, Tail(targets), remove_rank, rank, failure) :
             t1 \in {update_peer(tx, incoming_tx, Head(targets), remove_rank, rank,
                                 failure)}})

\* update_remote, the last step of sync.
update_remote(outcome, failure) ==
    IF outcome.result = "ok" /\ failure = "push"
    THEN [outcome EXCEPT !.result = "err", !.error = "push failed"]
    ELSE outcome

---------------------------------------------------------------------------
(* The state: the tables of each index, whether the SQLite build enforces  *)
(* foreign keys, and the last operation with what it returned.             *)

\* last.op names the operation, last.store the index it ran on, last.result
\* is "ok", "err" (an Err was returned, last.error its message) or "panic" (an
\* assertion failed); last.git_url and last.returned are the argument and the
\* result of a merge (for a remove, last.returned is the row it deleted);
\* last.repeat says that the operation before it was the
\* same merge and succeeded.
Last(op, store, result, error, git_url, returned, repeat) ==
    [op |-> op, store |-> store, result |-> result, error |-> error,
     git_url |-> git_url, returned |-> returned, repeat |-> repeat]

NoTable == [s \in Stores |-> {}]

\* Each index has gone through setup: it holds the root peer.
Init ==
    /\ foreign_keys \in BOOLEAN
    /\ peer = [s \in Stores |-> peer_setup({}, foreign_keys)]
    /\ registry = NoTable
    /\ package = NoTable
    /\ comment = NoTable
    /\ review = NoTable
    /\ last = Last("init", "local", "ok", "", "", {}, FALSE)

IdCap(s) == IF s = "local" THEN MaxId ELSE MaxRemoteId

\* peer::index::setup run again on an index.
Setup(s) ==
    /\ peer' = [peer EXCEPT ![s] = peer_setup(peer[s], foreign_keys)]
    /\ last' = Last("setup", s, "ok", "", "", {}, FALSE)
    /\ UNCHANGED <<registry, package, comment, review, foreign_keys>>

\* peer::index::insert under a parent read from the index, with the alias
\* get_new_alias derives (as the follow command inserts a peer).
PeerInsert(s, git_url, parent) ==
    LET r == peer_insert(peer[s], get_new_alias(peer[s], git_url), git_url,
                         {parent}, foreign_keys)
    IN  /\ parent \in peer[s]
        /\ last_insert_rowid(peer[s]) <= IdCap(s)
        /\ peer' = [peer EXCEPT ![s] = r.rows]
        /\ last' = Last("peer_insert", s, IF r.ok THEN "ok" ELSE "err", r.error, "", {}, FALSE)
        /\ UNCHANGED <<registry, package, comment, review, foreign_keys>>

\* peer::index::remove of the peer with the given id.
PeerRemove(s, id) ==
    LET r == peer_remove(peer[s], id, review[s], foreign_keys)
    IN  /\ peer' = [peer EXCEPT ![s] = r.rows]
        /\ last' = Last("peer_remove", s, r.result, r.error, "", r.removed, FALSE)
        /\ UNCHANGED <<registry, package, comment, review, foreign_keys>>

\* The orders in which the children of the peers of an index can be iterated.
Ranks(rows) == Permutations(Ids({p \in rows : p.parent_id # NoId}))

\* peer::index::merge of the remote index into the local index.
PeerMerge(incoming_root_git_url) ==
    \E rank \in Ranks(peer["remote"]) :
        \E r \in {peer_merge(peer["local"], peer["remote"], incoming_root_git_url,
                             rank, foreign_keys)} :
            /\ \A p \in r.rows : p.id <= MaxId
            /\ peer' = [peer EXCEPT !["local"] = r.rows]
            /\ last' = Last("peer_merge", "local", IF r.ok THEN "ok" ELSE "err",
                            r.error, incoming_root_git_url, r.returned,
                            /\ last.op = "peer_merge"
                            /\ last.result = "ok"
                            /\ last.git_url = incoming_root_git_url)
            /\ UNCHANGED <<registry, package, comment, review, foreign_keys>>

\* The remote index is another user's root index.  Merge reads its rows only,
\* so it is built by setup and insert; the local index is also removed from.
PeerNext ==
    \/ \E s \in Stores : Setup(s)
    \/ \E s \in Stores, git_url \in PeerUrls : \E parent \in peer[s] :
           PeerInsert(s, git_url, parent)
    \/ \E id \in 1..MaxId : PeerRemove("local", id)
    \/ \E git_url \in PeerUrls : PeerMerge(git_url)

\* The peer tree store alone: setup, insert, remove and merge of peers.
SpecPeer == Init /\ [][PeerNext]_vars

---------------------------------------------------------------------------
(* The whole store: reviews, the store merge and the removal of a peer's   *)
(* subtree.  A command runs in one transaction: when it returns an error   *)
(* or panics, the transaction is dropped and the index is as it was.       *)

\* Git urls used by the commands of the store specification.
StoreUrls == {"https://github.com/alice/r", "https://localhost/peer_3"}

\* The transaction a command opens on an index.
Tx(s) ==
    [peer |-> peer[s], registry |-> registry[s], package |-> package[s],
     comment |-> comment[s], review |-> review[s], fk |-> foreign_keys,
     result |-> "ok", error |-> ""]

\* tx.commit for a tx that ran without error; a dropped tx otherwise.
Commit(s, tx) ==
    IF tx.result = "ok"
    THEN /\ peer' = [peer EXCEPT ![s] = tx.peer]
         /\ registry' = [registry EXCEPT ![s] = tx.registry]
         /\ package' = [package EXCEPT ![s] = tx.package]
         /\ comment' = [comment EXCEPT ![s] = tx.comment]
         /\ review' = [review EXCEPT ![s] = tx.review]
    ELSE UNCHANGED <<peer, registry, package, comment, review>>

StoreIdCap(s) == IF s = "local" THEN MaxStoreId ELSE MaxStoreRemoteId

WithinCap(s, tx) ==
    \A row \in tx.peer \cup tx.registry \cup tx.package \cup tx.comment \cup tx.review :
        row.id <= StoreIdCap(s)

\* get_insert_package of the review command.
get_insert_package(tx, k) ==
    IF package_get(tx, k.name, k.version, {k.host_name}) # {} THEN tx
    ELSE LET t1 == registry_ensure(tx, k.host_name, k.registry_human_url, k.archive_url)
         IN  package_insert(t1, k.name, k.version,
                 registry_get(t1, k.host_name, k.registry_human_url, k.archive_url),
                 k.artifact_hash)

\* A new review of package k with n comments by peer p of index s: the
\* package is fetched or inserted, then the comments and the review are
\* inserted.  The root peer's reviews are made by the review command, those
\* of the other peers of an index by the merges that index has run.
MakeReview(s, p, k, n) ==
    /\ p \in peer[s]
    /\ \E t1 \in {get_insert_package(Tx(s), k)} :
        LET packages == package_get(t1, k.name, k.version, {k.host_name})
            package_id == (CHOOSE x \in packages : TRUE).id
        IN  /\ t1.result = "ok"
            /\ packages # {}
            /\ {r \in review_select(t1, ReviewsOfPeer(p.id)) :
                   r.package_id = package_id} = {}
            /\ \E t2 \in {review_insert(c.tx, c.ids, p.id, package_id) :
                          c \in {insert_comments(t1, [i \in 1..n |-> CommentInput], {})}} :
                   /\ WithinCap(s, t2)
                   /\ Commit(s, t2)
                   /\ last' = Last("review", s, t2.result, t2.error, "", {}, FALSE)
    /\ UNCHANGED foreign_keys

\* store::index::merge of the remote index into the local index, as the
\* follow and sync commands run it.
StoreMerge(incoming_root_git_url) ==
    \E rank \in Ranks(peer["remote"]) :
        \E tx \in {store_merge(incoming_root_git_url, Tx("remote"), Tx("local"), rank)} :
            /\ WithinCap("local", tx)
            /\ Commit("local", tx)
            /\ last' = Last("store_merge", "local", tx.result, tx.error,
                            incoming_root_git_url, {},
                            /\ last.op = "store_merge"
                            /\ last.result = "ok"
                            /\ last.git_url = incoming_root_git_url)
            /\ UNCHANGED foreign_keys

\* The orders in which the peers of a layer can be iterated when a subtree is
\* removed.  A root is alone in its layer: its place in the order is fixed.
RemoveRanks(rows) ==
    {rank \in Permutations(Ids(rows)) :
        \A p \in rows : p.parent_id = NoId => rank[p.id] = p.id}

\* What a command leaves: the tables of tx when the index transaction was
\* committed, and the record of the command with what was committed.
CommandEnd(op, tx, outcome, git_url, returned) ==
    /\ Commit("local", [tx EXCEPT !.result = IF outcome.index_committed
                                             THEN "ok" ELSE "err"])
    /\ last' = [op |-> op, store |-> "local", result |-> outcome.result,
                error |-> outcome.error, git_url |-> git_url, returned |-> returned,
                repeat |-> FALSE, index_committed |-> outcome.index_committed,
                git_committed |-> outcome.git_committed]
    /\ UNCHANGED foreign_keys

Commands == {"follow", "sync", "remove_peer_subtree"}

\* The add command with the remote index as the index of the followed peer,
\* on a local index whose ids stay within max_id.
FollowWithin(git_url, failure, max_id) ==
    \E found \in into_iter_next(peer_get_by_git_url(peer["local"], git_url)),
       remove_rank \in RemoveRanks(peer["local"]), rank \in Ranks(peer["remote"]) :
        \E tx \in {peer_add(Tx("local"), Tx("remote"), git_url, found, remove_rank,
                            rank, failure)} :
            /\ \A row \in tx.peer \cup tx.registry \cup tx.package \cup tx.comment
                              \cup tx.review : row.id <= max_id
            /\ CommandEnd("follow", tx,
                          command_commit(tx, add_returns_early(Tx("local"), found),
                                         failure),
                          git_url, {})

Follow(git_url, failure) == FollowWithin(git_url, failure, MaxStoreId)

\* The children of the root, which sync reads at its start.
RootChildren(rows) == {p \in rows : \E r \in get_root(rows) : p.parent_id = r.id}

\* The sync command; targets are the children of the root whose repository
\* has an update, in the order they are met, and the remote index is the
\* index of each of them.  last.returned holds the targets.
Sync(targets, failure) ==
    /\ \A i \in DOMAIN targets : targets[i] \in RootChildren(peer["local"])
    /\ \A i, j \in DOMAIN targets : targets[i] = targets[j] => i = j
    /\ \E remove_rank \in RemoveRanks(peer["local"]), rank \in Ranks(peer["remote"]) :
        \E tx \in {update_peers(IF RootChildren(peer["local"]) # {}
                                THEN fs_step(Tx("local"), failure) ELSE Tx("local"),
                                Tx("remote"), targets, remove_rank, rank, failure)} :
            /\ WithinCap("local", tx)
            /\ CommandEnd("sync", tx,
                          update_remote(command_commit(tx, targets = <<>>, failure),
                                        failure),
                          IF targets = <<>> THEN "" ELSE Head(targets).git_url,
                          {targets[i] : i \in DOMAIN targets})

\* review::index::merge of the remote index into the local index, called on
\* its own.  last.returned holds the review rows the merge had inserted when
\* it returned.
ReviewMerge(incoming_root_git_url) ==
    \E tx \in {review_merge(incoming_root_git_url, Tx("remote"), Tx("local"))} :
        /\ WithinCap("local", tx)
        /\ Commit("local", tx)
        /\ last' = Last("review_merge", "local", tx.result, tx.error,
                        incoming_root_git_url, tx.review \ review["local"], FALSE)
        /\ UNCHANGED foreign_keys

\* The peers of the layers of a subtree.
RECURSIVE layer_peers(_)
layer_peers(layers) ==
    IF layers = <<>> THEN {} ELSE Head(layers) \cup layer_peers(Tail(layers))

\* The remove command (unfollow) on the local index.  last.returned is the
\* set of the peers of the subtree of the target.
RemovePeerSubtree(git_url, failure) ==
    \E found \in into_iter_next(peer_get_by_git_url(peer["local"], git_url)),
       rank \in RemoveRanks(peer["local"]) :
        \E tx \in {peer_remove_command(Tx("local"), found, rank, failure)} :
            CommandEnd("remove_peer_subtree", tx, command_commit(tx, FALSE, failure),
                       git_url,
                       IF found = {} THEN {}
                       ELSE layer_peers(get_breadth_first_child_peers(
                                peer["local"], CHOOSE p \in found : TRUE)))

\* The peers whose reviews are made in an index: the local index gets the
\* reviews of its root from the review command and the others from merges.
Reviewers(s) == IF s = "local" THEN get_root(peer[s]) ELSE peer[s]

StoreNext ==
    \/ \E git_url \in StoreUrls : \E parent \in peer["remote"] :
           /\ last_insert_rowid(peer["remote"]) <= MaxStoreRemoteId
           /\ PeerInsert("remote", git_url, parent)
    \/ \E s \in Stores, k \in PackageInputs : \E p \in Reviewers(s) :
           MakeReview(s, p, k, MaxComments)
    \/ \E git_url \in StoreUrls : StoreMerge(git_url)
    \/ \E git_url \in StoreUrls : ReviewMerge(git_url)
    \/ \E git_url \in StoreUrls \cup {ROOT_DEFAULT_GIT_URL} : Follow(git_url, "none")
    \/ \E target_peer \in peer["local"] : Sync(<<target_peer>>, "none")
    \/ \E git_url \in StoreUrls \cup {ROOT_DEFAULT_GIT_URL} :
           RemovePeerSubtree(git_url, "none")

\* The sequences of distinct elements of a set.
RECURSIVE Arrangements(_)
Arrangements(S) ==
    {<<>>} \cup UNION {{<<x>> \o rest : rest \in Arrangements(S \ {x})} : x \in S}

CommandNext ==
    \/ \E git_url \in StoreUrls : \E parent \in peer["remote"] :
           /\ last_insert_rowid(peer["remote"]) <= MaxStoreRemoteId
           /\ PeerInsert("remote", git_url, parent)
    \/ \E k \in PackageInputs : \E p \in peer["remote"] :
           MakeReview("remote", p, k, MaxComments)
    \/ \E git_url \in StoreUrls \cup {ROOT_DEFAULT_GIT_URL},
          failure \in Failures \ {"push"} :
           Follow(git_url, failure)
    \/ \E targets \in Arrangements(RootChildren(peer["local"])), failure \in Failures :
           Sync(targets, failure)
    \/ \E git_url \in StoreUrls \cup {ROOT_DEFAULT_GIT_URL},
          failure \in Failures \ {"push"} :
           RemovePeerSubtree(git_url, failure)

\* The commands follow, sync and unfollow on the local index, each with what
\* can fail outside the index; the remote index gets peers and reviews.
SpecCommand == Init /\ [][CommandNext]_vars

MaxFollowId == 4

\* The follow and unfollow commands on git urls two of which differ in the
\* case of a letter only.  The remote index is the index of the peer that is
\* followed: between two follows it is any tree of peers, so peers are
\* inserted into it and removed from it.
FollowNext ==
    \/ \E git_url \in PeerUrls : \E parent \in peer["remote"] :
           /\ last_insert_rowid(peer["remote"]) <= MaxFollowId
           /\ PeerInsert("remote", git_url, parent)
    \/ \E id \in 2..MaxFollowId : PeerRemove("remote", id)
    \/ \E git_url \in PeerUrls \cup {ROOT_DEFAULT_GIT_URL} :
           FollowWithin(git_url, "none", MaxFollowId)
    \/ \E git_url \in PeerUrls \cup {ROOT_DEFAULT_GIT_URL} :
           RemovePeerSubtree(git_url, "none")

SpecFollow == Init /\ [][FollowNext]_vars

MaxPackageId == 3

\* Packages a review can be about: the first two are one artifact found at
\* two registries, the third is another version at the first registry.
MergePackageInputs ==
    PackageInputs \cup
    {[name |-> "numpy", version |-> "1.0", artifact_hash |-> "sha-1",
      host_name |-> "mirror.example.org",
      registry_human_url |-> "https://mirror.example.org/pypi/numpy/1.0/",
      archive_url |-> "https://mirror.example.org/files/numpy-1.0.tar.gz"],
     [name |-> "numpy", version |-> "1.1", artifact_hash |-> "sha-2",
      host_name |-> "pypi.org",
      registry_human_url |-> "https://pypi.org/pypi/numpy/1.1/",
      archive_url |-> "https://files.pythonhosted.org/numpy-1.1.tar.gz"]}

\* The peer whose index the remote index is.
PackageUrls == {"https://github.com/alice/r"}

WithinPackageCap(tx) ==
    \A row \in tx.peer \cup tx.registry \cup tx.package : row.id <= MaxPackageId

\* get_insert_package of the review command on an index.
GetInsertPackage(s, k) ==
    \E tx \in {get_insert_package(Tx(s), k)} :
        /\ WithinPackageCap(tx)
        /\ Commit(s, tx)
        /\ last' = Last("get_insert_package", s, tx.result, tx.error, "", {}, FALSE)
        /\ UNCHANGED foreign_keys

\* package::index::merge of the remote index into the local index, called
\* on its own.
PackageMerge ==
    \E tx \in {package_merge(Tx("remote"), Tx("local"))} :
        /\ WithinPackageCap(tx)
        /\ Commit("local", tx)
        /\ last' = Last("package_merge", "local", tx.result, tx.error, "", {}, FALSE)
        /\ UNCHANGED foreign_keys

PackageNext ==
    \/ \E s \in Stores, k \in MergePackageInputs : GetInsertPackage(s, k)
    \/ \E s \in Stores, k \in MergePackageInputs : \E p \in get_root(peer[s]) :
           MakeReview(s, p, k, 0)
    \/ PackageMerge
    \/ \E git_url \in PackageUrls : Follow(git_url, "none")
    \/ \E target_peer \in peer["local"] : Sync(<<target_peer>>, "none")

\* The packages and registries of two indexes: packages are recorded in
\* each, and the remote index is merged into the local one by a package
\* merge, by a follow and by a sync.
SpecPackage == Init /\ [][PackageNext]_vars

\* The store with its reviews: reviews are made, the remote index is merged
\* into the local one, and peers are unfollowed.
SpecStore == Init /\ [][StoreNext]_vars

---------------------------------------------------------------------------
(* The review store on its own: on the local index peers are followed and  *)
(* reviews are inserted, updated and removed, each operation in one        *)
(* transaction.                                                            *)

\* The git url of the peer that is followed.
ReviewUrls == {"https://github.com/alice/r"}

\* The sequences of at most n comments a reviewer can write.
CommentSeqs(n) == UNION {[1..m -> CommentContents] : m \in 0..n}

WithinReviewCap(tx) ==
    /\ \A row \in tx.registry \cup tx.package \cup tx.comment \cup tx.review :
           row.id <= MaxReviewId
    /\ \A r \in tx.review : Cardinality(r.comment_ids) <= MaxReviewComments

\* last of an operation of the review store.
ReviewCall(op, tx) == Last(op, "local", tx.result, tx.error, "", {}, FALSE)

\* The package of input k is fetched or inserted, the comments are inserted
\* and review::index::insert is called for peer p with them.
ReviewInsert(p, k, comments) ==
    /\ p \in peer["local"]
    /\ \E t1 \in {get_insert_package(Tx("local"), k)} :
        LET packages == package_get(t1, k.name, k.version, {k.host_name})
            package_id == (CHOOSE x \in packages : TRUE).id
        IN  /\ t1.result = "ok"
            /\ packages # {}
            /\ \E t2 \in {review_insert(c.tx, c.ids, p.id, package_id) :
                          c \in {insert_comments(t1, comments, {})}} :
                   /\ WithinReviewCap(t2)
                   /\ Commit("local", t2)
                   /\ last' = ReviewCall("review_insert", t2)
    /\ UNCHANGED foreign_keys

\* A review read with review::index::get is edited (some of its comments are
\* kept, new ones are inserted) and written with review::index::update.
ReviewUpdate(r, kept, comments) ==
    /\ r \in review_select(Tx("local"), AnyReview)
    /\ kept \subseteq review_comments(Tx("local"), r)
    /\ \E c \in {insert_comments(Tx("local"), comments, {})} :
        \E rank \in Permutations(r.comment_ids) :
        \E updated \in {[id |-> r.id, peer_id |-> r.peer_id, package_id |-> r.package_id,
                          comments |-> kept \cup {x \in c.tx.comment : x.id \in c.ids}]} :
        \E t2 \in {review_update(c.tx, updated, rank)} :
            /\ WithinReviewCap(t2)
            /\ Commit("local", t2)
            /\ last' = ReviewCall("review_update", t2)
    /\ UNCHANGED foreign_keys

\* review::index::remove with the given fields.
ReviewRemove(fields) ==
    /\ \E tx \in {review_remove(Tx("local"), fields)} :
           /\ Commit("local", tx)
           /\ last' = ReviewCall("review_remove", tx)
    /\ UNCHANGED foreign_keys

\* The fields a remove is called with: a peer, a review id, or a package
\* name and version.
RemoveFields ==
    {ReviewsOfPeer(p.id) : p \in peer["local"]}
    \cup {ReviewFields(r.id, NoId, "", "") : r \in review["local"]}
    \cup {ReviewFields(NoId, NoId, k.name, k.version) : k \in PackageInputs}

ReviewNext ==
    \/ \E git_url \in ReviewUrls : \E parent \in get_root(peer["local"]) :
           /\ last_insert_rowid(peer["local"]) <= MaxReviewPeerId
           /\ PeerInsert("local", git_url, parent)
    \/ \E k \in PackageInputs, comments \in CommentSeqs(MaxReviewComments) :
           \E p \in peer["local"] : ReviewInsert(p, k, comments)
    \/ \E r \in review["local"], comments \in CommentSeqs(MaxReviewComments) :
           \E kept \in SUBSET review_comments(Tx("local"), r) :
               ReviewUpdate(r, kept, comments)
    \/ \E fields \in RemoveFields : ReviewRemove(fields)

SpecReview == Init /\ [][ReviewNext]_vars

---------------------------------------------------------------------------
(* get_difference_sans_id on its own: the two sets are drawn from the      *)
(* comments with a small id, and one call is made on them.                 *)

DifferenceElements ==
    {Comment(id, c.path, c.summary, c.message) : id \in 1..MaxDifferenceId,
                                                  c \in CommentContents}

DifferenceSets ==
    {S \in SUBSET DifferenceElements : Cardinality(S) <= MaxDifferenceSize}

\* The orders in which a HashSet can be iterated.
Orders(S) ==
    {order \in [1..Cardinality(S) -> S] :
        \A i, j \in 1..Cardinality(S) : order[i] = order[j] => i = j}

\* last of a call of get_difference_sans_id: its arguments and its result.
DifferenceCall(op, primary, secondary, returned) ==
    [op |-> op, store |-> "local", result |-> "ok", error |-> "", git_url |-> "",
     returned |-> returned, repeat |-> FALSE, primary |-> primary,
     secondary |-> secondary]

InitDifference ==
    /\ foreign_keys \in BOOLEAN
    /\ peer = [s \in Stores |-> peer_setup({}, foreign_keys)]
    /\ registry = NoTable
    /\ package = NoTable
    /\ comment = NoTable
    /\ review = NoTable
    /\ \E primary, secondary \in DifferenceSets :
           last = DifferenceCall("arguments", primary, secondary, {})

GetDifferenceSansId ==
    /\ last.op = "arguments"
    /\ \E primary \in Orders(last.primary), secondary \in Orders(last.secondary) :
           last' = DifferenceCall("get_difference_sans_id", last.primary, last.secondary,
                       get_difference_sans_id(
                           hash_entries(primary,
                                        [c \in last.primary |-> comment_sans_id(c)]),
                           hash_entries(secondary,
                                        [c \in last.secondary |-> comment_sans_id(c)])))
    /\ UNCHANGED <<peer, registry, package, comment, review, foreign_keys>>

DifferenceNext == GetDifferenceSansId

SpecDifference == InitDifference /\ [][DifferenceNext]_vars

\* C12: get_difference_sans_id(primary, secondary) returns exactly the
\* elements of primary for which no element of secondary has the same
\* content without the id.
C12_DifferenceSansId ==
    last.op = "get_difference_sans_id" =>
        last.returned =
            {x \in last.primary :
                \A y \in last.secondary : comment_sans_id(y) # comment_sans_id(x)}

---------------------------------------------------------------------------
(* get_peer_path on its own: a branch from the root and a root directory   *)
(* are drawn, and one call is made on them.  A PathBuf is a record of its  *)
(* components and of whether it starts at the root of the file system.     *)

MaxBranchLength == 3

PathBuf(absolute, components) == [absolute |-> absolute, components |-> components]

\* PathBuf::join: an absolute path replaces the path it is joined to.
path_join(path, other) ==
    IF other.absolute THEN other
    ELSE PathBuf(path.absolute, path.components \o other.components)

\* get_submodule_storage_relative_path: the host and the path of the git url.
get_submodule_storage_relative_path(git_url) ==
    path_join(PathBuf(FALSE, <<host_str(git_url)>>),
              PathBuf(FALSE, path_components(git_url)))

\* DataPaths::from_root_directory(root_directory).peers_directory
peers_directory(root_directory) == path_join(root_directory, PathBuf(FALSE, <<"peers">>))

\* A variant of get_peer_path that puts every peer of the branch into the
\* peers directory of the root directory.
RECURSIVE get_peer_path_flat_loop(_, _, _)
get_peer_path_flat_loop(peer_path, peer_branch, root_directory) ==
    IF peer_branch = <<>> THEN peer_path
    ELSE get_peer_path_flat_loop(
             IF is_root(Head(peer_branch)) THEN path_join(peer_path, root_directory)
             ELSE path_join(peers_directory(root_directory),
                            get_submodule_storage_relative_path(Head(peer_branch).git_url)),
             Tail(peer_branch), root_directory)

\* The loop of get_peer_path.
RECURSIVE get_peer_path_loop(_, _, _)
get_peer_path_loop(peer_path, peer_branch, root_directory) ==
    IF peer_branch = <<>> THEN peer_path
    ELSE get_peer_path_loop(
             IF is_root(Head(peer_branch)) THEN path_join(peer_path, root_directory)
             ELSE path_join(peers_directory(peer_path),
                            get_submodule_storage_relative_path(Head(peer_branch).git_url)),
             Tail(peer_branch), root_directory)

get_peer_path(peer_branch, root_directory) ==
    get_peer_path_loop(PathBuf(TRUE, <<>>), peer_branch, root_directory)

\* The root directories: data_local_dir is an absolute path.
RootDirectories == {PathBuf(TRUE, <<"vouch">>), PathBuf(TRUE, <<"home", "u", "vouch">>)}

\* The git urls of the peers of a branch below the root, and of the root.
BranchUrls == AliasUrls \ {"https://github.com/root/r"}

RootUrls == {ROOT_DEFAULT_GIT_URL, "https://github.com/alice/r"}

\* The branches [root, p1, ..., pn]: each peer is a child of the one before
\* and no two peers have the same git url.
RECURSIVE BranchesFrom(_, _)
BranchesFrom(branch, n) ==
    {branch} \cup
    (IF n = 0 THEN {}
     ELSE UNION {BranchesFrom(
                     Append(branch, Peer(Len(branch) + 1, git_url, git_url,
                                         branch[Len(branch)].id, None)), n - 1) :
                 git_url \in BranchUrls \ {branch[i].git_url : i \in DOMAIN branch}})

PeerBranches ==
    UNION {BranchesFrom(<<Peer(1, ROOT_ALIAS, git_url, NoId, None)>>, MaxBranchLength - 1) :
           git_url \in RootUrls}

\* last of a call of get_peer_path: its arguments and its result.
PeerPathCall(op, peer_branch, root_directory, returned) ==
    [op |-> op, store |-> "local", result |-> "ok", error |-> "", git_url |-> "",
     returned |-> returned, repeat |-> FALSE, peer_branch |-> peer_branch,
     root_directory |-> root_directory]

InitPeerPath ==
    /\ foreign_keys \in BOOLEAN
    /\ peer = [s \in Stores |-> peer_setup({}, foreign_keys)]
    /\ registry = NoTable
    /\ package = NoTable
    /\ comment = NoTable
    /\ review = NoTable
    /\ \E peer_branch \in PeerBranches, root_directory \in RootDirectories :
           last = PeerPathCall("arguments", peer_branch, root_directory, {})

GetPeerPath ==
    /\ last.op = "arguments"
    /\ last' = PeerPathCall("get_peer_path", last.peer_branch, last.root_directory,
                            {get_peer_path(last.peer_branch, last.root_directory)})
    /\ UNCHANGED <<peer, registry, package, comment, review, foreign_keys>>

PeerPathNext == GetPeerPath

SpecPeerPath == InitPeerPath /\ [][PeerPathNext]_vars

---------------------------------------------------------------------------
(* Properties of the peer tree.                                            *)

Local == peer["local"]
Remote == peer["remote"]

\* The peer of a table with the given git url, and the git url of its parent
\* ("" for a peer without a parent row).
WithGitUrl(rows, git_url) == {p \in rows : p.git_url = git_url}
ParentGitUrls(rows, git_url) ==
    {q.git_url : q \in {q \in rows : \E p \in WithGitUrl(rows, git_url) : p.parent_id = q.id}}

MergedOk == last.op = "peer_merge" /\ last.result = "ok"

\* C1: in every index the parent link and the child sets agree: a peer with a
\* parent_id is listed in the child_peer_ids of the row with that id, and
\* every id in a child_peer_ids set is the id of a row whose parent_id is the
\* owner of the set.
C1_ParentChildConsistent ==
    \A s \in Stores :
        /\ \A p \in peer[s] : p.parent_id # NoId =>
               \E q \in peer[s] : q.id = p.parent_id /\ p.id \in q.child_peer_ids.ids
        /\ \A q \in peer[s] : \A c \in q.child_peer_ids.ids :
               \E p \in peer[s] : p.id = c /\ p.parent_id = q.id

\* A merge has inserted a peer two levels below the local root.
C1_Witness ==
    /\ MergedOk
    /\ \E p \in last.returned : \E q \in Local :
           /\ q.id = p.parent_id
           /\ q.parent_id # NoId
           /\ p.id \in q.child_peer_ids.ids

Roots(rows) == {p \in rows : p.alias = ROOT_ALIAS /\ p.parent_id = NoId}

OneRoot == \A s \in Stores : Cardinality(Roots(peer[s])) = 1 /\ \A p \in peer[s] : p.parent_id = NoId => p \in Roots(peer[s])

RemoveOfRoot(id) == PeerRemove("local", id) /\ \E p \in Roots(Local) : p.id = id

\* C2 (as the code has it): every index has exactly one root peer (alias
\* "root", no parent) and no other peer without a parent, whatever setup,
\* insert, merge and remove have done; a remove of the root deletes nothing,
\* and it returns an error when the root has no children and fails the
\* children assertion when it has.
C2_OneRootRemoveRefused ==
    /\ []OneRoot
    /\ [][\A id \in 1..MaxId : RemoveOfRoot(id) =>
              /\ peer' = peer
              /\ last'.result = (IF \E p \in Local : p.parent_id = id
                                 THEN "panic" ELSE "err")]_vars

\* C2 as stated: a remove of the root returns an error and deletes nothing.
C2_RemoveOfRootReturnsError ==
    [][\A id \in 1..MaxId : RemoveOfRoot(id) =>
           peer' = peer /\ last'.result = "err"]_vars

\* A remove of the root of an index with followed peers has been refused, and
\* the index still has its root and those peers.
C2_Witness ==
    /\ last.op = "peer_remove"
    /\ last.result \in {"err", "panic"}
    /\ last.error \in {"Peer does not have a parent peer. Cannot remove root peer.",
                       "Error removing peer. Peer has associated child peers which need to be removed first."}
    /\ Cardinality(Local) >= 2
    /\ Cardinality(Roots(Local)) = 1

\* C3: no two peers of an index have the same git_url, and a merge never
\* fails on the uniqueness of git_url: it skips the incoming peers whose
\* git_url is in the local index or was inserted earlier in the pass.
C3_GitUrlUnique ==
    /\ \A s \in Stores : \A p, q \in peer[s] : p.git_url = q.git_url => p = q
    /\ last.op = "peer_merge" => last.error # "UNIQUE constraint failed: peer.git_url"

\* A merge has skipped a peer that was in the local index, and has met the
\* incoming root (given to two children) a second time after inserting it.
C3_Witness ==
    /\ MergedOk
    /\ last.git_url \in GitUrls(last.returned)
    /\ \E r \in Roots(Remote) : Cardinality(r.child_peer_ids.ids) >= 2
    /\ \E r \in Remote : r.parent_id # NoId /\ r.git_url \in GitUrls(Local \ last.returned)

\* C4: a merge that follows a successful merge of the same remote index under
\* the same incoming_root_git_url succeeds, inserts nothing, returns the empty
\* set and leaves the local peers as they were.
C4_MergeIdempotent ==
    [][\A git_url \in PeerUrls :
           (MergedOk /\ last.git_url = git_url /\ PeerMerge(git_url)) =>
               /\ last'.result = "ok"
               /\ last'.returned = {}
               /\ peer'["local"] = peer["local"]]_vars

\* The second of two equal merges has run, on a local index the first one had
\* added peers to.
C4_Witness ==
    /\ MergedOk
    /\ last.repeat
    /\ \E p \in Local : p.git_url = last.git_url
    /\ \E r \in Remote : r.parent_id # NoId /\ r.git_url \in GitUrls(Local)

\* C6: a merge keeps every peer the local index had: its id, alias, git_url
\* and parent_id are the same after the merge, and no second peer with its
\* git_url is inserted.
C6_LocalPositionWins ==
    [][\A git_url \in PeerUrls : PeerMerge(git_url) =>
           \A p \in peer["local"] :
               /\ \E q \in peer'["local"] :
                      /\ q.id = p.id
                      /\ q.alias = p.alias
                      /\ q.git_url = p.git_url
                      /\ q.parent_id = p.parent_id
               /\ Cardinality(WithGitUrl(peer'["local"], p.git_url)) = 1]_vars

\* A merge has inserted peers while the remote index holds a peer the local
\* index had under another parent.
C6_Witness ==
    /\ MergedOk
    /\ last.returned # {}
    /\ \E p \in Local \ last.returned : \E r \in Remote :
           /\ r.git_url = p.git_url
           /\ r.parent_id # NoId
           /\ p.parent_id # NoId
           /\ ParentGitUrls(Local, p.git_url) \cap
                  (ParentGitUrls(Remote, r.git_url) \cup {last.git_url}) = {}

\* The git url under which the merge knows a peer of the remote index.
IncomingGitUrl(p) == IF is_root(p) THEN last.git_url ELSE p.git_url

ShapeKept(child, parent) ==
    (child.parent_id = parent.id /\ child.git_url \in GitUrls(last.returned)) =>
        ParentGitUrls(Local, child.git_url) = {IncomingGitUrl(parent)}

IncomingRootUnderLocalRoot ==
    last.git_url \in GitUrls(last.returned) =>
        ParentGitUrls(Local, last.git_url) = {ROOT_DEFAULT_GIT_URL}

\* C7 (as the code has it): after a merge, a newly inserted peer whose git_url
\* is not incoming_root_git_url has as its local parent the peer with the
\* git_url of its incoming parent (incoming_root_git_url for the incoming
\* root); the peer inserted for the incoming root, and so any incoming peer
\* with the git_url incoming_root_git_url, is a child of the local root.
C7_ShapePreserved ==
    MergedOk =>
        /\ \A child, parent \in Remote :
               child.git_url # last.git_url => ShapeKept(child, parent)
        /\ IncomingRootUnderLocalRoot

\* C7 as stated: every newly inserted peer has the counterpart of its
\* incoming parent as its parent.
C7_EveryChildUnderIncomingParent ==
    MergedOk =>
        /\ \A child, parent \in Remote : ShapeKept(child, parent)
        /\ IncomingRootUnderLocalRoot

\* A merge has inserted the incoming root under the local root and a peer two
\* levels below the incoming root under the counterpart of its parent.
C7_Witness ==
    /\ MergedOk
    /\ last.git_url \in GitUrls(last.returned)
    /\ \E child, parent \in Remote :
           /\ child.parent_id = parent.id
           /\ parent.parent_id # NoId
           /\ child.git_url \in GitUrls(last.returned)
           /\ child.git_url # last.git_url
           /\ ParentGitUrls(Local, child.git_url) = {parent.git_url}

\* C8: a successful merge returns exactly the peers it inserted (those whose
\* git_url the local index did not have), each as its row is stored when the
\* merge returns, parent_id and child_peer_ids included.
C8_ReturnsInserted ==
    [][\A git_url \in PeerUrls :
           (PeerMerge(git_url) /\ last'.result = "ok") =>
               last'.returned =
                   {p \in peer'["local"] : p.git_url \notin GitUrls(peer["local"])}]_vars

\* A merge has returned a peer that got a child later in the same pass.
C8_Witness ==
    /\ MergedOk
    /\ \E p \in last.returned : p.child_peer_ids.ids # {} /\ p \in Local

NoDanglingIds ==
    \A s \in Stores : \A q \in peer[s] :
        /\ q.child_peer_ids.ids \subseteq Ids(peer[s])
        /\ q.parent_id # NoId => q.parent_id \in Ids(peer[s])

\* C10: child_peer_ids and parent_id never name a missing row; a remove of
\* a peer with children deletes nothing (the assertion fails); a remove of a
\* childless peer with a parent takes its id out of the parent's
\* child_peer_ids and deletes its row, and no other row.
C10_RemoveKeepsSymmetry ==
    /\ []NoDanglingIds
    /\ [][\A id \in 1..MaxId : \A p \in peer["local"] :
              (p.id = id /\ PeerRemove("local", id)) =>
                  IF p.child_peer_ids.ids # {}
                  THEN peer' = peer /\ last'.result = "panic"
                  ELSE p.parent_id # NoId =>
                       /\ last'.result = "ok"
                       /\ Ids(peer'["local"]) = Ids(peer["local"]) \ {id}
                       /\ \A q \in peer'["local"] : id \notin q.child_peer_ids.ids]_vars

\* A remove has deleted the only child of a peer: the parent's child set is
\* absent again.
C10_Witness ==
    /\ last.op = "peer_remove"
    /\ last.result = "ok"
    /\ \E p \in last.returned : \E q \in Local :
           q.id = p.parent_id /\ ~q.child_peer_ids.some /\ p \notin Local

\* The peers on the path from a peer up to the root, the peer excluded.
RECURSIVE Ancestors(_, _, _)
Ancestors(rows, p, n) ==
    IF n = 0 \/ p.parent_id = NoId THEN {}
    ELSE LET parents == {q \in rows : q.id = p.parent_id}
         IN  parents \cup UNION {Ancestors(rows, q, n - 1) : q \in parents}

Descendants(rows, p) == {q \in rows : p \in Ancestors(rows, q, Cardinality(rows))}

\* The properties of the layers returned for starting peer p of a table.
LayersOf(rows, p, layers) ==
    /\ Len(layers) >= 1
    /\ layers[1] = {p}
    /\ \A k \in 1..(Len(layers) - 1) :
           layers[k + 1] = {q \in rows : q.parent_id \in Ids(layers[k])}
    /\ layers[Len(layers)] # {}
    /\ {q \in rows : q.parent_id \in Ids(layers[Len(layers)])} = {}
    /\ \A j, k \in 1..Len(layers) : j # k => layers[j] \cap layers[k] = {}
    /\ UNION {layers[k] : k \in 1..Len(layers)} = {p} \cup Descendants(rows, p)

\* C11: for every peer p of an index, get_breadth_first_child_peers(p)
\* returns layers of which the first is {p}, each next one is exactly the set
\* of the peers whose parent_id is the id of a peer of the layer before, the
\* last is non-empty and has no children, which are pairwise disjoint and
\* whose union is p with all its descendants.
C11_BreadthFirstLayers ==
    \A s \in Stores : \A p \in peer[s] :
        LayersOf(peer[s], p, get_breadth_first_child_peers(peer[s], p))

\* An index holds a peer whose subtree has three layers, one of them with two
\* peers.
C11_Witness ==
    \E s \in Stores : \E p \in peer[s] :
        LET layers == get_breadth_first_child_peers(peer[s], p)
        IN  /\ Len(layers) >= 3
            /\ \E k \in 1..Len(layers) : Cardinality(layers[k]) >= 2
            /\ LayersOf(peer[s], p, layers)

\* C13: ids are never reused: a peer inserted after a peer was removed from
\* the same index does not get the id of the removed peer.
C13_IdsNeverReused ==
    [][(last.op = "peer_remove" /\ last.result = "ok") =>
           \A id \in Ids(peer'["local"]) \ Ids(peer["local"]) :
               id \notin Ids(last.returned)]_vars

---------------------------------------------------------------------------
(* Properties of the store merge and of the removal of a subtree.          *)

\* C5: a store merge that follows a successful store merge of the same
\* remote index under the same incoming_root_git_url succeeds and inserts no
\* review row and no comment row.
C5_ReviewMergeIdempotent ==
    [][\A git_url \in StoreUrls :
           (/\ last.op = "store_merge"
            /\ last.result = "ok"
            /\ last.git_url = git_url
            /\ StoreMerge(git_url)) =>
               /\ last'.result = "ok"
               /\ review' = review
               /\ comment' = comment]_vars

\* C9: the removal of a peer's subtree never fails the children assertion
\* of peer remove, and after it has run no peer of the subtree and no
\* review row owned by one of them is left in the index.
C9_SubtreeRemoved ==
    last.op = "remove_peer_subtree" =>
        /\ last.result # "panic"
        /\ last.result = "ok" =>
               \A p \in last.returned :
                   /\ p.id \notin Ids(peer["local"])
                   /\ \A r \in review["local"] : r.peer_id # p.id

---------------------------------------------------------------------------
(* Properties of the review store.                                         *)

\* The reviews review::index::get returns on the local index.
ReviewsGot(fields) == review_select(Tx("local"), fields)

\* C14: a review remove leaves the package of a removed review stored when
\* a review by another peer references it, and leaves that review stored and
\* returned by review get.
C14_PackageKeptWhileReferenced ==
    [][\A fields \in RemoveFields :
           (ReviewRemove(fields) /\ last'.result = "ok") =>
               \A r \in ReviewsGot(AnyReview) \ ReviewsGot(fields) :
                   (\E m \in ReviewsGot(fields) :
                        m.package_id = r.package_id /\ m.peer_id # r.peer_id) =>
                       /\ r.package_id \in Ids(package'["local"])
                       /\ r \in review'["local"]
                       /\ r \in ReviewsGot(AnyReview)']_vars

\* C15: a review remove deletes the row and the comment rows of every review
\* matching the fields, so that review get with the same fields returns
\* nothing afterwards, and every review not matching the fields is still
\* returned with its comments.
C15_RemoveCascades ==
    [][\A fields \in RemoveFields :
           (ReviewRemove(fields) /\ last'.result = "ok") =>
               /\ ReviewsGot(fields)' = {}
               /\ \A m \in ReviewsGot(fields) :
                      /\ m.id \notin Ids(review'["local"])
                      /\ m.comment_ids \cap Ids(comment'["local"]) = {}
               /\ \A r \in ReviewsGot(AnyReview) \ ReviewsGot(fields) :
                      /\ r \in ReviewsGot(AnyReview)'
                      /\ \A c \in comment["local"] :
                             c.id \in r.comment_ids => c \in comment'["local"]]_vars

AllCommentsReferenced ==
    \A c \in comment["local"] : \E r \in review["local"] : c.id \in r.comment_ids

\* C16: a review insert or update on an index in which every comment row is
\* referenced by the comment ids of a review leaves every comment row
\* referenced by the comment ids of a review.
C16_UpdateNeverOrphans ==
    [][(/\ last'.op \in {"review_insert", "review_update"}
        /\ last'.result = "ok"
        /\ AllCommentsReferenced) => AllCommentsReferenced']_vars

OneReviewPerPeerPackage ==
    \A s \in Stores : \A r, m \in review[s] :
        (r.peer_id = m.peer_id /\ r.package_id = m.package_id) => r = m

\* The reviews of peer p on the package that an insert for input k is made on.
ExistingReviews(p, k) ==
    LET t1 == get_insert_package(Tx("local"), k)
    IN  {r \in review["local"] :
            /\ r.peer_id = p.id
            /\ \E x \in package_get(t1, k.name, k.version, {k.host_name}) :
                   r.package_id = x.id}

\* C17: no index ever holds two reviews with the same peer_id and
\* package_id, and a review insert for a peer and a package that have a
\* review returns the UNIQUE error and leaves the review table as it was.
C17_OneReviewPerPeerAndPackage ==
    /\ []OneReviewPerPeerPackage
    /\ [][\A p \in peer["local"], k \in PackageInputs,
             comments \in CommentSeqs(MaxReviewComments) :
              (ReviewInsert(p, k, comments) /\ ExistingReviews(p, k) # {}) =>
                  /\ last'.result = "err"
                  /\ last'.error = "UNIQUE constraint failed: review.peer_id, review.package_id"
                  /\ review' = review]_vars

\* A review insert has failed on the uniqueness of (peer_id, package_id) in
\* an index that holds reviews of two peers.
C17_Witness ==
    /\ last.op = "review_insert"
    /\ last.result = "err"
    /\ last.error = "UNIQUE constraint failed: review.peer_id, review.package_id"
    /\ Cardinality(review["local"]) = 2
    /\ OneReviewPerPeerPackage

---------------------------------------------------------------------------
(* Properties of the merge of reviews, packages and registries.            *)

\* The reviews of the remote index in the order review merge meets them.
IncomingReviews == by_id(review_select(Tx("remote"), AnyReview))

\* The local peers and packages review merge looks up for an incoming review.
LocalPeersOf(incoming_root_git_url, r) ==
    {q \in peer["local"] :
        \E i \in peer["remote"] :
            /\ i.id = r.peer_id
            /\ Like(q.git_url, IF is_root(i) THEN incoming_root_git_url ELSE i.git_url)}

LocalPackagesOf(r) ==
    {k \in package["local"] :
        \E i \in package["remote"] :
            /\ i.id = r.package_id
            /\ Like(k.name, i.name)
            /\ Like(k.version, i.version)
            /\ \E g \in registry["local"], h \in registry["remote"] :
                   /\ g.id \in k.registry_ids
                   /\ h.id \in i.registry_ids
                   /\ g.host_name = h.host_name}

\* The position of the first incoming review whose peer or package the local
\* index does not have; 0 when there is none.
FirstMissing(incoming_root_git_url) ==
    LET missing == {i \in DOMAIN IncomingReviews :
                       \/ LocalPeersOf(incoming_root_git_url, IncomingReviews[i]) = {}
                       \/ LocalPackagesOf(IncomingReviews[i]) = {}}
    IN  IF missing = {} THEN 0 ELSE CHOOSE i \in missing : \A j \in missing : i <= j

NotFoundErrors ==
    {"Failed to find matching peer for review", "Failed to find matching package for review"}

\* C18: a review merge that meets an incoming review whose peer or package
\* the local index does not have returns an error; the review rows it has
\* inserted by then are of incoming reviews met before that one, and when all
\* of those were inserted the error is the one of the failed lookup.
C18_ReviewMergeAborts ==
    [][\A git_url \in StoreUrls :
           (ReviewMerge(git_url) /\ FirstMissing(git_url) # 0) =>
               /\ last'.result = "err"
               /\ review' = review
               /\ \A row \in last'.returned :
                      \E j \in 1..(FirstMissing(git_url) - 1) :
                          /\ row.peer_id \in Ids(LocalPeersOf(git_url, IncomingReviews[j]))
                          /\ row.package_id \in Ids(LocalPackagesOf(IncomingReviews[j]))
               /\ Cardinality(last'.returned) = FirstMissing(git_url) - 1 =>
                      last'.error \in NotFoundErrors]_vars

\* A review merge has inserted the first incoming review and has returned the
\* error of the missing peer of the second.
C18_Witness ==
    /\ last.op = "review_merge"
    /\ last.result = "err"
    /\ last.error = "Failed to find matching peer for review"
    /\ Cardinality(last.returned) = 1
    /\ FirstMissing(last.git_url) = 2

\* The reviews of the remote index reference peers and packages of the
\* remote index.
IncomingIndexClosed ==
    \A r \in review["remote"] :
        /\ \E p \in peer["remote"] : p.id = r.peer_id
        /\ \E k \in package["remote"] : k.id = r.package_id

\* The outcome of the four stages of a store merge of the remote index into
\* the local index, each stage run on what the previous one returned and
\* none after a stage that failed.
StagesInOrder(incoming_root_git_url, rank) ==
    LET t1 == registry_merge(Tx("remote"), Tx("local"))
        t2 == peer_merge_tx(incoming_root_git_url, Tx("remote"), t1, rank)
        t3 == package_merge(Tx("remote"), t2)
        t4 == review_merge(incoming_root_git_url, Tx("remote"), t3)
    IN  IF t1.result # "ok" THEN t1
        ELSE IF t2.result # "ok" THEN t2
        ELSE IF t3.result # "ok" THEN t3
        ELSE t4

\* C19: a store merge returns what its stages registry merge, peer merge,
\* package merge and review merge give when run in this order, each on the
\* outcome of the previous one and none after a failed one; and when the
\* reviews of the incoming index reference its own peers and packages and
\* the peer with incoming_root_git_url is in the local index before the
\* merge, as in follow and sync, the merge does not fail on a lookup of the
\* peer or the package of a review.
C19_StoreMergeOrder ==
    [][/\ \A git_url \in StoreUrls :
              StoreMerge(git_url) =>
                  \E rank \in Ranks(peer["remote"]) :
                      \E tx \in {StagesInOrder(git_url, rank)} :
                          /\ last'.result = tx.result
                          /\ last'.error = tx.error
                          /\ tx.result = "ok" =>
                                 /\ peer'["local"] = tx.peer
                                 /\ registry'["local"] = tx.registry
                                 /\ package'["local"] = tx.package
                                 /\ review'["local"] = tx.review
       /\ (/\ IncomingIndexClosed
           /\ \/ last'.op \in {"follow", "sync"}
              \/ /\ last'.op = "store_merge"
                 /\ peer_get_by_git_url(peer["local"], last'.git_url) # {})
              => last'.error \notin NotFoundErrors]_vars

\* A follow has merged an index in which the followed peer and one of the
\* peers it follows have each made a review.
C19_Witness ==
    /\ last.op = "follow"
    /\ last.result = "ok"
    /\ \E r1, r2 \in review["local"] : \E p1, p2 \in peer["local"] :
           /\ p1.id = r1.peer_id
           /\ p2.id = r2.peer_id
           /\ p1.git_url = last.git_url
           /\ p2.parent_id = p1.id

\* The content of a package row of a table, given the registry table of its
\* index.
ContentOf(registries, k) == package_sans_id([registry |-> registries], k)

\* The incoming packages without a content-equal local package.
NewPackages ==
    {k \in package["remote"] :
        \A n \in package["local"] :
            ContentOf(registry["local"], n) # ContentOf(registry["remote"], k)}

NoDuplicateRegistries ==
    \A r1, r2 \in registry["local"] :
        (r1.host_name = r2.host_name /\ r1.archive_url = r2.archive_url) => r1 = r2

PackagesReferenceRegistries ==
    \A k \in package["local"] :
        /\ k.registry_ids # {}
        /\ \A id \in k.registry_ids : \E r \in registry["local"] : r.id = id

\* C20: after a package merge, and after the store merge of a follow or a
\* sync, every incoming package that had no content-equal local package has
\* one; no two local registry rows have the same host name and archive url,
\* and every local package references ids of local registries.
C20_PackageMergeInsertsAll ==
    /\ [](NoDuplicateRegistries /\ PackagesReferenceRegistries)
    /\ [][last'.op \in {"package_merge", "follow", "sync"} =>
              \A k \in NewPackages :
                  \E n \in package'["local"] :
                      ContentOf(registry'["local"], n) = ContentOf(registry["remote"], k)]_vars

---------------------------------------------------------------------------
(* Properties of get_new_alias, of the commands and of the queries.        *)

AliasError == "UNIQUE constraint failed: peer.alias"

\* C21: in every index and for every git url no peer of the index has,
\* get_new_alias returns an alias that is not the root alias and not the
\* alias of a peer of the index (the git url itself when the derived alias
\* is reserved or in use), and the insert of a peer with this alias under a
\* peer of the index does not fail on the uniqueness of the alias; no insert
\* and no merge of peers ends with that error.
C21_NewAliasUnique ==
    /\ \A s \in Stores, git_url \in AliasUrls :
           (\A p \in peer[s] : p.git_url # git_url) =>
               \E alias \in {get_new_alias(peer[s], git_url)} :
                   /\ alias # ROOT_ALIAS
                   /\ \A p \in peer[s] : p.alias # alias
                   /\ alias \in {first_segment(git_url), git_url}
                   /\ \A parent \in peer[s] :
                          peer_insert(peer[s], alias, git_url, {parent},
                                      foreign_keys).error # AliasError
    /\ last.error # AliasError

\* A peer whose derived alias was in use has been inserted under its git
\* url as alias, and the derived alias of a git url not in the index is in
\* use.
C21_Witness ==
    /\ last.op = "peer_insert"
    /\ last.result = "ok"
    /\ \E p, q \in peer["local"] :
           /\ p.alias = "alice"
           /\ q.alias = q.git_url
           /\ first_segment(q.git_url) = "Alice"
    /\ \A p \in peer["local"] : p.git_url # "https://gitlab.com/alice/r"

\* The tables of the local index.
LocalIndex == <<peer["local"], registry["local"], package["local"], comment["local"],
                review["local"]>>

\* C22: a follow, an unfollow or a sync that returns an error leaves the
\* committed local index as it was before the command.
C22_ErrorLeavesIndex ==
    [][(last'.op \in Commands /\ last'.result # "ok") => LocalIndex' = LocalIndex]_vars

\* C23: the commit of a command commits to git only after the index
\* transaction was committed: a command whose index commit failed has made
\* no git commit, and a command that has made a git commit has committed
\* its index transaction, so that the local index holds what the command
\* wrote.
C23_GitCommitAfterIndexCommit ==
    /\ [](last.op \in Commands =>
             /\ last.git_committed => last.index_committed
             /\ last.error = "index commit failed" =>
                    ~last.git_committed /\ ~last.index_committed)
    /\ [][(last'.op \in Commands /\ last'.error = "index commit failed") =>
              LocalIndex' = LocalIndex]_vars

\* The index commit of a follow has failed.
C23_Witness ==
    /\ last.op = "follow"
    /\ last.error = "index commit failed"
    /\ \E p \in peer["remote"] : p.parent_id # NoId

\* Sets of registry host names a query is made with.
HostNameSets == SUBSET {"pypi.org", "mirror.example.org", "npmjs.com"}

\* Package k of index s has the given name and version ("" for not given)
\* up to ASCII case and a registry with one of the host names.
PackageMatches(s, k, name, version, host_names) ==
    /\ name = "" \/ Fold(k.name) = Fold(name)
    /\ version = "" \/ Fold(k.version) = Fold(version)
    /\ \E r \in registry[s] : r.id \in k.registry_ids /\ r.host_name \in host_names

\* C24: in every index, package get with a set of registry host names
\* returns exactly the stored packages that match the name and version
\* given and have a registry whose host name is in the set, and review get
\* returns exactly the stored reviews of such packages.
C24_GetOnRegistryHostNames ==
    \A s \in Stores, host_names \in HostNameSets :
        \A name \in {"", "numpy"}, version \in {"", "1.0", "1.1"} :
            /\ package_get(Tx(s), name, version, host_names)
                   = {k \in package[s] : PackageMatches(s, k, name, version, host_names)}
            /\ review_get(Tx(s), ReviewFields(NoId, NoId, name, version), host_names)
                   = {r \in review[s] :
                         /\ r.peer_id \in Ids(peer[s])
                         /\ \E k \in package[s] :
                                /\ k.id = r.package_id
                                /\ PackageMatches(s, k, name, version, host_names)}

\* An index holds two reviewed packages at registries with different host
\* names, and the queries with one of the host names return one package and
\* one review.
C24_Witness ==
    \E s \in Stores :
        /\ Cardinality(package[s]) = 2
        /\ Cardinality(review[s]) = 2
        /\ Cardinality(package_get(Tx(s), "", "", {"mirror.example.org", "npmjs.com"})) = 1
        /\ Cardinality(review_get(Tx(s), AnyReview, {"mirror.example.org"})) = 1

\* C25: in every index, for every git url and every peer of the index as
\* parent, when the insert of a peer under the parent succeeds, the remove of
\* the inserted peer succeeds and gives the peer table as it was before the
\* insert; and a remove step deletes the row of the removed peer, takes its
\* id from the child set of its parent (stored as absent when it becomes
\* empty) and changes no other row.
C25_InsertThenRemoveRestores ==
    /\ [](\A s \in Stores, git_url \in PeerUrls : \A parent \in peer[s] :
             \E r \in {peer_insert(peer[s], get_new_alias(peer[s], git_url), git_url,
                                   {parent}, foreign_keys)} :
                 r.ok => \A new_peer \in r.peers :
                             \E d \in {peer_remove(r.rows, new_peer.id, review[s],
                                                   foreign_keys)} :
                                 /\ d.result = "ok"
                                 /\ d.removed = {new_peer}
                                 /\ d.rows = peer[s])
    /\ [][(last'.op = "peer_remove" /\ last'.result = "ok") =>
              \A removed \in last'.returned :
                  peer'["local"] =
                      {IF p.id = removed.parent_id
                       THEN [p EXCEPT !.child_peer_ids =
                                IF p.child_peer_ids.ids \ {removed.id} = {} THEN None
                                ELSE Some(p.child_peer_ids.ids \ {removed.id})]
                       ELSE p : p \in peer["local"] \ {removed}}]_vars

\* The peer inserted last as the only child of its parent has been removed:
\* the child set of the parent is absent again.
C25_Witness ==
    /\ last.op = "peer_remove"
    /\ last.result = "ok"
    /\ \E removed \in last.returned : \E p \in peer["local"] :
           /\ p.id = removed.parent_id
           /\ p.parent_id # NoId
           /\ p.child_peer_ids = None
           /\ removed.id > MaxOf(Ids(peer["local"]))

\* The components "peers", host and path of each peer of a branch that is
\* not the root, in the order of the branch.
RECURSIVE PeerDirectories(_)
PeerDirectories(peer_branch) ==
    IF peer_branch = <<>> THEN <<>>
    ELSE (IF is_root(Head(peer_branch)) THEN <<>>
          ELSE <<"peers", host_str(Head(peer_branch).git_url)>>
                   \o path_components(Head(peer_branch).git_url))
         \o PeerDirectories(Tail(peer_branch))

\* C26: get_peer_path of a branch [root, p1, ..., pn] and a root directory
\* returns one path: the root directory followed, for each peer below the
\* root in order, by "peers", the host and the path segments of its git url;
\* the git url of the root is no part of it.
C26_PeerPath ==
    last.op = "get_peer_path" =>
        last.returned = {PathBuf(TRUE, last.root_directory.components
                                       \o PeerDirectories(last.peer_branch))}

\* The path of a branch of three peers at two hosts below a root with a git
\* url of its own.
C26_Witness ==
    /\ last.op = "get_peer_path"
    /\ Len(last.peer_branch) = 3
    /\ last.peer_branch[1].git_url = "https://github.com/alice/r"
    /\ last.returned = {PathBuf(TRUE, <<"vouch", "peers", "github.com", "Alice", "r",
                                        "peers", "gitlab.com", "alice", "r">>)}


---------------------------------------------------------------------------
(* Properties of the peer merge and of the follow, remove and sync         *)
(* commands.                                                               *)

\* C27: after a successful peer merge the local index holds a peer whose
\* git url is incoming_root_git_url, whatever the incoming tree is, an
\* incoming root without children included.
C27_MergeAttachesIncomingRoot ==
    (last.op = "peer_merge" /\ last.result = "ok")
        => \E p \in peer["local"] : p.git_url = last.git_url


\* The peers of the subtree of a peer, the peer included.
Subtree(rows, p) == layer_peers(get_breadth_first_child_peers(rows, p))

\* The peer is a direct child of the root of its index.
IsRootChild(rows, p) == \E r \in rows : r.parent_id = NoId /\ p.parent_id = r.id

\* C28: after a successful follow of a git url the peer with that git url
\* exists exactly once and its parent is the root; when it was a direct child
\* of the root before, the index is unchanged; when it was known deeper in
\* the tree, its old subtree was removed: of the old descendants only those
\* the merged index names are in the index.
C28_FollowPutsPeerUnderRoot ==
    [][(last'.op = "follow" /\ last'.result = "ok") =>
           LET git_url == last'.git_url
               was == {p \in peer["local"] : p.git_url = git_url}
               now == {p \in peer'["local"] : p.git_url = git_url}
           IN  /\ Cardinality(now) = 1
               /\ \A p \in now : IsRootChild(peer'["local"], p)
               /\ \A p \in was :
                      IF IsRootChild(peer["local"], p)
                      THEN LocalIndex' = LocalIndex
                      ELSE \A d \in Subtree(peer["local"], p) \ {p} :
                               d.git_url \in GitUrls(peer'["local"])
                                   => d.git_url \in GitUrls(peer["remote"])]_vars


\* The peer a subtree removal started from: the one peer of the removed
\* subtree whose parent is outside of it.
RemovalTargets(removed) == {t \in removed : t.parent_id \notin Ids(removed)}

\* What a peer outside the subtree of target is after the removal of the
\* subtree: the parent of target without the id of target among its
\* children, every other peer as it was.  The comparison is on the ids of
\* child_peer_ids, an absent set being an empty one.
AfterRemoval(p, target) ==
    [id |-> p.id, alias |-> p.alias, git_url |-> p.git_url, parent_id |-> p.parent_id,
     child_ids |-> IF p.id = target.parent_id
                   THEN p.child_peer_ids.ids \ {target.id} ELSE p.child_peer_ids.ids]

PeerFields(p) ==
    [id |-> p.id, alias |-> p.alias, git_url |-> p.git_url, parent_id |-> p.parent_id,
     child_ids |-> p.child_peer_ids.ids]

\* C29: removing the subtree of a peer changes no peer outside of the
\* subtree but the parent of the target, whose child_peer_ids loses exactly
\* the id of the target; the root, the ancestors of the target and the
\* sibling subtrees keep id, alias, git_url, parent_id and child_peer_ids.
C29_RemovalFrame ==
    [][(last'.op = "remove_peer_subtree" /\ last'.result = "ok") =>
           \A target \in RemovalTargets(last'.returned) :
               {PeerFields(p) : p \in peer'["local"]} =
                   {AfterRemoval(p, target) : p \in peer["local"] \ last'.returned}]_vars

C29_Witness ==
    /\ last.op = "remove_peer_subtree"
    /\ last.result = "ok"
    /\ Cardinality(last.returned) = 2
    /\ \E target \in RemovalTargets(last.returned) :
           \E parent, sibling \in peer["local"] :
               /\ parent.id = target.parent_id
               /\ parent.parent_id = NoId
               /\ sibling.parent_id = parent.id
               /\ parent.child_peer_ids.ids = {sibling.id}


\* The tree invariants of an index: one root and no other peer without a
\* parent, no git url twice, and parent links and child sets that agree.
TreeInvariants(rows) ==
    /\ Cardinality(Roots(rows)) = 1
    /\ \A p \in rows : p.parent_id = NoId => p \in Roots(rows)
    /\ \A p, q \in rows : p.git_url = q.git_url => p = q
    /\ \A p \in rows : p.parent_id # NoId =>
           \E q \in rows : q.id = p.parent_id /\ p.id \in q.child_peer_ids.ids
    /\ \A q \in rows : \A c \in q.child_peer_ids.ids :
           \E p \in rows : p.id = c /\ p.parent_id = q.id


\* The errors of the steps of a command outside the index.
OutsideErrors == {"io error", "index commit failed", "git commit failed", "push failed"}

\* C30: a sync that finds an update for children of the root removes the
\* subtree of each of them, inserts it again under the root with its alias
\* and git url and merges its index: unless a step outside the index fails,
\* the sync returns Ok; afterwards each updated peer is a direct child of the
\* root, of its old descendants only those its index names are in the local
\* index, and the tree invariants hold.  Sync commits only when a peer was
\* updated, and a sync that returns Ok has committed exactly when a peer was
\* updated.
C30_SyncRefreshesUpdatedPeers ==
    [][last'.op = "sync" =>
           /\ TreeInvariants(peer'["local"])
           /\ last'.index_committed => last'.returned # {}
           /\ last'.error \notin OutsideErrors => last'.result = "ok"
           /\ last'.result = "ok" =>
                  /\ last'.index_committed <=> last'.returned # {}
                  /\ \A P \in last'.returned :
                         /\ \E q \in peer'["local"] :
                                /\ q.alias = P.alias
                                /\ q.git_url = P.git_url
                                /\ IsRootChild(peer'["local"], q)
                         /\ \A d \in Subtree(peer["local"], P) \ {P} :
                                d.git_url \in GitUrls(peer'["local"])
                                    => d.git_url \in GitUrls(peer["remote"])
                  /\ last'.returned = {} => LocalIndex' = LocalIndex]_vars

====
